---- MODULE Spec2Model ----
(***************************************************************************)
(* A model of yfass, the control plane of a function-as-a-service host:    *)
(* the function registry (src/src/func.rs), the user manager               *)
(* (src/src/user.rs) and the deployment coordinator (src/src/main.rs).     *)
(***************************************************************************)
EXTENDS Integers, Sequences, FiniteSets, TLC

VARIABLES
    functions,  \* FunctionManager.functions : OwnedKey -> FunctionCell (a cell id)
    cells,      \* the heap of FunctionCell = Arc<RwLock<Function>>, by cell id
    dirty,      \* FunctionManager.dirty
    dirs,       \* keys k for which the directory <root>/<k> exists on disk
    files,      \* directory key -> the metadata.json and config.json it holds
    rlast,      \* the last completed registry call and its result
    users,      \* UserManager.users : user name -> User
    tokens,     \* UserManager.tokens : token -> user name (the token index)
    udirty,     \* UserManager.dirty
    now,        \* UtcDateTime::now()
    issued,     \* history: every token add_token returned, with user and expiry
    ulast,      \* the last completed user-manager call and its result
    handles,    \* LocalCx.handles : OwnedKey -> sandbox handle (a process id)
    proxies,    \* LocalCx.proxies : host prefix -> authority
    procs,      \* the sandbox processes spawned so far, by process id
    tasks,      \* the deploy and kill requests, each with its position
    started,    \* history: keys whose start_fn returned Ok with no stop_fn issued since
    plast,      \* the last request the proxy middleware handled and where it went
    presp,      \* the URI the last request was sent on with, and the response given
    ufile,      \* the users.json file under the root directory
    save,       \* each save_data call in progress: its position and what it holds
    phase,      \* the server: running, stopping (signal received), or exited
    alast,      \* the last call of the control API layer and its result
    flast,      \* the last request to a function endpoint and its result
    blast       \* the last call of bwrap_args and the argument list it built

rvars == <<functions, cells, dirty, dirs, files, rlast>>
uvars == <<users, tokens, udirty, now, issued, ulast, ufile>>
dvars == <<handles, proxies, procs, tasks, started>>
pvars == <<plast, presp>>
avars == <<alast>>
svars == <<save, phase>>
fvars == <<flast>>
bvars == <<blast>>
vars == <<rvars, uvars, dvars, pvars, avars, svars, fvars, bvars>>

----------------------------------------------------------------------------
(* Values *)

\* Option::None for version_alias, Config.group and lookups.
None == "<None>"

Names == {"fn"}
Versions == {"v1", "v2", "latest"}

Key(n, v) == [name |-> n, version |-> v]
Keys == {Key(n, v) : n \in Names, v \in Versions}

\* An alias argument of modify_alias: Option<String>.
AliasArgs == Versions \cup {None}

\* Config.addr values used by the model, as (ip, port).
Addr(ip, port) == [ip |-> ip, port |-> port]
DefaultAddr == Addr("127.0.0.1", 0)
Addrs == {DefaultAddr, Addr("127.0.0.1", 19999)}

\* Group values: Permission(p), Singular(user), Custom(label); NoGroup is the
\* None of Option<Group>.
NoGroup == [kind |-> "none", val |-> None]
Permission(p) == [kind |-> "permission", val |-> p]
Singular(u) == [kind |-> "singular", val |-> u]
Custom(l) == [kind |-> "custom", val |-> l]

UserNames == {"alice", "bob"}

\* SandboxConfig: the environment overrides; Some(v) sets the variable and
\* None removes it.
SandboxConfig(envs) == [envs |-> envs]
DefaultSandbox == SandboxConfig(<<>>)

\* Config of a function: the fields the operations read or write.
ConfigOf(g, a, sb) == [group |-> g, addr |-> a, sandbox |-> sb]
Config(g, a) == ConfigOf(g, a, DefaultSandbox)
DefaultConfig == Config(NoGroup, DefaultAddr)
Configs == {Config(g, a) : g \in {NoGroup} \cup {Singular(u) : u \in UserNames}, a \in Addrs}
\* The configuration an override request carries in the model.
NewConfig == Config(NoGroup, Addr("127.0.0.1", 19999))

\* Function { meta: Metadata { name, version, version_alias }, config }
Function(n, v, a, c) == [name |-> n, version |-> v, version_alias |-> a, config |-> c]

CellIds == 1..(Cardinality(Keys) + 1)
\* The None of Option<FunctionCell>.
NoCell == 0
\* The key slot of a call that takes no key.
NoKey == Key(None, None)

----------------------------------------------------------------------------
(* Helpers on the concurrent map *)

Drop(f, k) == [x \in DOMAIN f \ {k} |-> f[x]]
Put(f, k, v) == [x \in DOMAIN f \cup {k} |-> IF x = k THEN v ELSE f[x]]
Range(f) == {f[x] : x \in DOMAIN f}

\* A registry value: the map and the cell heap.
Reg(f, c) == [functions |-> f, cells |-> c]
Ok(R) == [functions |-> R.functions, cells |-> R.cells, res |-> "Ok"]
Err(R, e) == [functions |-> R.functions, cells |-> R.cells, res |-> e]

\* A fixed enumeration of the keys, used only to name cells.
KeySeq == CHOOSE s \in [1..Cardinality(Keys) -> Keys] : Range(s) = Keys
KeyIdx(k) == CHOOSE i \in 1..Cardinality(Keys) : KeySeq[i] = k
Min(S) == CHOOSE x \in S : \A y \in S : x <= y

\* An Arc is freed when the last map entry holding it goes away. A cell's
\* address carries no meaning: each live cell is named after the first key
\* that holds it, so that two heaps differing only in addresses are one state.
CellName(R, c) == Min({KeyIdx(k) : k \in {x \in DOMAIN R.functions : R.functions[x] = c}})
Collect(R) ==
    [i \in {CellName(R, c) : c \in Range(R.functions)} |->
        R.cells[CHOOSE c \in Range(R.functions) : CellName(R, c) = i]]
Rename(R) == [k \in DOMAIN R.functions |-> CellName(R, R.functions[k])]

\* Arc::new: a cell id no live cell uses.
FreshCell(R) == CHOOSE c \in CellIds : c \notin DOMAIN R.cells

----------------------------------------------------------------------------
(* FunctionManager, src/src/func.rs *)

\* get: the cell at the key, canonical or alias.
get(R, key) == IF key \in DOMAIN R.functions THEN R.functions[key] ELSE NoCell

priv_remove_alias(R, key, old_alias) ==
    Reg(Drop(R.functions, Key(key.name, old_alias)), R.cells)

\* Only an occupied alias slot is updated; the version read for old_key is the
\* one of the entry after the overwrite.
priv_add_alias(R, c) ==
    LET alias_key == Key(R.cells[c].name, R.cells[c].version_alias) IN
    IF R.cells[c].version_alias = None THEN Err(R, "NotAliased")
    ELSE IF alias_key \in DOMAIN R.functions
    THEN LET F1 == [R.functions EXCEPT ![alias_key] = c]
             old_key == Key(alias_key.name, R.cells[F1[alias_key]].version)
         IN IF old_key \in DOMAIN F1
            THEN Ok(Reg(F1, [R.cells EXCEPT ![F1[old_key]].version_alias = None]))
            ELSE Ok(Reg(F1, R.cells))
    ELSE Ok(R)

priv_modify_alias(R, key, alias) ==
    IF key \notin DOMAIN R.functions THEN Err(R, "NotFound")
    ELSE LET c == R.functions[key]
             ao == R.cells[c].version_alias
         IN IF ao = alias THEN Ok(R)
            ELSE LET R1 == Reg(R.functions, [R.cells EXCEPT ![c].version_alias = alias])
                     R2 == IF ao # None THEN priv_remove_alias(R1, key, ao) ELSE R1
                 IN IF alias # None THEN priv_add_alias(R2, c) ELSE Ok(R2)

priv_modify_config(R, key, config) ==
    IF key \notin DOMAIN R.functions THEN Err(R, "NotFound")
    ELSE Ok(Reg(R.functions, [R.cells EXCEPT ![R.functions[key]].config = config]))

\* priv_init_info inserts at a vacant key only. A mutant that inserts at any
\* key first.
priv_init_info_upsert(R, key, init_group) ==
    LET c == FreshCell(R) IN
    Ok(Reg(Put(R.functions, key, c),
           Put(R.cells, c, Function(key.name, key.version, None,
                                    Config(init_group, DefaultAddr)))))

priv_init_info(R, key, init_group) ==
    IF key \in DOMAIN R.functions THEN Err(R, "Duplicated")
    ELSE LET c == FreshCell(R) IN
         Ok(Reg(Put(R.functions, key, c),
                Put(R.cells, c, Function(key.name, key.version, None,
                                         Config(init_group, DefaultAddr)))))

\* The map part of priv_remove_func: the entry at the key, then the alias entry.
priv_remove_func(R, key) ==
    IF key \notin DOMAIN R.functions THEN Err(R, "NotFound")
    ELSE LET c == R.functions[key]
             R1 == Reg(Drop(R.functions, key), R.cells)
         IN IF R.cells[c].version_alias # None
            THEN Ok(priv_remove_alias(R1, key, R.cells[c].version_alias))
            ELSE Ok(R1)

CurReg == Reg(functions, cells)

RLast(op, key, alias, res) == [op |-> op, key |-> key, alias |-> alias, res |-> res]

\* add_func: priv_init_info, then priv_write_contents (create_dir_all, unpack),
\* then mark_dirty. tar_ok is whether the tarball unpacks.
\* The call of add_func as it acts on the registry and its directories.
add_func_call(key, init_group, tar_ok) ==
    LET r == priv_init_info(CurReg, key, init_group) IN
    /\ functions' = Rename(r)
    /\ cells' = Collect(r)
    /\ dirs' = IF r.res = "Ok" THEN dirs \cup {key} ELSE dirs
    /\ dirty' = IF r.res = "Ok" /\ tar_ok THEN TRUE ELSE dirty
    /\ rlast' = RLast("add", key, None,
                      IF r.res = "Ok" /\ ~tar_ok THEN "Io" ELSE r.res)
    /\ UNCHANGED <<files>>

add_func(key, init_group, tar_ok) ==
    /\ add_func_call(key, init_group, tar_ok)
    /\ UNCHANGED <<uvars, dvars, pvars, avars, svars, fvars, bvars>>

\* The call of modify_alias as it acts on the registry.
modify_alias_call(key, alias) ==
    LET r == priv_modify_alias(CurReg, key, alias) IN
    /\ functions' = Rename(r)
    /\ cells' = Collect(r)
    /\ dirty' = IF r.res = "Ok" THEN TRUE ELSE dirty
    /\ rlast' = RLast("modify_alias", key, alias, r.res)
    /\ UNCHANGED <<dirs, files>>

modify_alias(key, alias) ==
    /\ modify_alias_call(key, alias)
    /\ UNCHANGED <<uvars, dvars, pvars, avars, svars, fvars, bvars>>

\* The call of modify_config as it acts on the registry.
modify_config_call(key, config) ==
    LET r == priv_modify_config(CurReg, key, config) IN
    /\ functions' = Rename(r)
    /\ cells' = Collect(r)
    /\ dirty' = IF r.res = "Ok" THEN TRUE ELSE dirty
    /\ rlast' = RLast("modify_config", key, None, r.res)
    /\ UNCHANGED <<dirs, files>>

modify_config(key, config) ==
    /\ modify_config_call(key, config)
    /\ UNCHANGED <<uvars, dvars, pvars, avars, svars, fvars, bvars>>

\* remove_func: priv_remove_func, whose last step remove_dir_all(<root>/<key>)
\* fails when that directory does not exist; mark_dirty only on success.
\* The call of remove_func as it acts on the registry and its directories.
remove_func_call(key) ==
    LET r == priv_remove_func(CurReg, key)
        io_ok == key \in dirs
    IN
    /\ functions' = Rename(r)
    /\ cells' = Collect(r)
    /\ dirs' = IF r.res = "Ok" THEN dirs \ {key} ELSE dirs
    /\ files' = IF r.res = "Ok" /\ key \in DOMAIN files THEN Drop(files, key) ELSE files
    /\ dirty' = IF r.res = "Ok" /\ io_ok THEN TRUE ELSE dirty
    /\ rlast' = RLast("remove", key, None,
                      IF r.res = "Ok" /\ ~io_ok THEN "Io" ELSE r.res)

remove_func(key) ==
    /\ remove_func_call(key)
    /\ UNCHANGED <<uvars, dvars, pvars, avars, svars, fvars, bvars>>

----------------------------------------------------------------------------
(* Persistence of the registry, src/src/func.rs *)

\* Group as text (Display): "<kind>:<value>", kept as its three pieces.
GroupText(g) == <<g.kind, ":", g.val>>

\* str::split_once: the text before and after the first separator.
NoSplit == <<>>
split_once(s, sep) ==
    IF \E i \in 1..Len(s) : s[i] = sep
    THEN LET i == Min({j \in 1..Len(s) : s[j] = sep})
         IN <<SubSeq(s, 1, i - 1), SubSeq(s, i + 1, Len(s))>>
    ELSE NoSplit

\* Group::from_str: the key selects the variant; anything else is an error.
ParseError == [kind |-> "error", val |-> None]
group_from_str(s) ==
    LET parts == split_once(s, ":") IN
    IF parts = NoSplit \/ Len(parts[1]) # 1 \/ Len(parts[2]) # 1 THEN ParseError
    ELSE IF parts[1][1] = "permission" THEN Permission(parts[2][1])
    ELSE IF parts[1][1] = "custom" THEN Custom(parts[2][1])
    ELSE IF parts[1][1] = "singular" THEN Singular(parts[2][1])
    ELSE ParseError

\* metadata.json: version_alias is skipped when None.
metadata_to_json(F) ==
    IF F.version_alias = None
    THEN [name |-> F.name, version |-> F.version]
    ELSE [name |-> F.name, version |-> F.version, version_alias |-> F.version_alias]

\* config.json: group is skipped when None and written as text otherwise.
config_to_json(c) ==
    IF c.group = NoGroup
    THEN [addr |-> c.addr, sandbox |-> c.sandbox]
    ELSE [group |-> GroupText(c.group), addr |-> c.addr, sandbox |-> c.sandbox]

\* A skipped field is read back as its default, None.
metadata_from_json(j) ==
    [name |-> j.name, version |-> j.version,
     version_alias |-> IF "version_alias" \in DOMAIN j THEN j.version_alias ELSE None]

config_from_json(j) ==
    ConfigOf(IF "group" \in DOMAIN j THEN group_from_str(j.group) ELSE NoGroup,
             j.addr, j.sandbox)

\* The two files of one directory.
FilesOf(F) == [metadata |-> metadata_to_json(F), config |-> config_to_json(F.config)]

\* A metadata.json that File::open or serde_json::from_reader fails on.
NotJson == [garbage |-> TRUE]

\* Both files of the directory are opened and deserialised.
Parses(d) == "name" \in DOMAIN d.metadata /\ "addr" \in DOMAIN d.config

\* The Function a directory's two files parse to.
function_from_files(d) ==
    LET m == metadata_from_json(d.metadata) IN
    Function(m.name, m.version, m.version_alias, config_from_json(d.config))

\* insert_sync: inserts only into a vacant slot; cell c holds F.
insert_sync(R, key, c, F) ==
    IF key \in DOMAIN R.functions THEN R
    ELSE Reg(Put(R.functions, key, c), Put(R.cells, c, F))

\* The loop body of priv_read_from_fs for one directory: a new cell, inserted
\* at the alias key (when the metadata names one) and then at the canonical key.
load_dir(R, d) ==
    LET F == function_from_files(d)
        c == FreshCell(R)
        R1 == IF F.version_alias # None
              THEN insert_sync(R, Key(F.name, F.version_alias), c, F)
              ELSE R
    IN insert_sync(R1, Key(F.name, F.version), c, F)

\* priv_read_from_fs over the directories in the order read_dir yields them;
\* a directory without the two files, or whose files do not parse, is skipped.
RECURSIVE load_dirs(_, _, _)
load_dirs(R, disk, order) ==
    IF order = <<>> THEN R
    ELSE LET d == Head(order)
             R1 == IF d \in DOMAIN disk
                      /\ Parses(disk[d])
                      /\ function_from_files(disk[d]).config.group # ParseError
                   THEN load_dir(R, disk[d])
                   ELSE R
         IN load_dirs(Reg(Rename(R1), Collect(R1)), disk, Tail(order))

\* The orders in which read_dir may yield a set of directories.
Orders(S) == {o \in [1..Cardinality(S) -> S] : Range(o) = S}

priv_read_from_fs(R, disk, order) ==
    IF DOMAIN R.functions # {} THEN Err(R, "Initialized")
    ELSE Ok(load_dirs(R, disk, order))

\* priv_write_all_to_fs: every entry of the map, canonical or alias, gets the
\* directory <root>/<key> with the metadata and config of the cell it holds.
priv_write_all_to_fs(R, disk) ==
    [k \in DOMAIN disk \cup DOMAIN R.functions |->
        IF k \in DOMAIN R.functions THEN FilesOf(R.cells[R.functions[k]]) ELSE disk[k]]

\* write_all_to_fs: priv_write_all_to_fs, then dirty is cleared.
write_all_to_fs ==
    /\ files' = priv_write_all_to_fs(CurReg, files)
    /\ dirs' = dirs \cup DOMAIN functions
    /\ dirty' = FALSE
    /\ rlast' = RLast("write_all", NoKey, None, "Ok")
    /\ UNCHANGED <<functions, cells, uvars, dvars, pvars, avars, svars, fvars, bvars>>

\* A restart on the same root: FunctionManager::new, then read_from_fs (main).
Restart(order) ==
    LET r == priv_read_from_fs(Reg(<<>>, <<>>), files, order) IN
    /\ functions' = Rename(r)
    /\ cells' = Collect(r)
    /\ dirty' = FALSE
    /\ rlast' = RLast("read_from_fs", NoKey, None, r.res)
    /\ UNCHANGED <<dirs, files, uvars, dvars, pvars, avars, svars, fvars, bvars>>

\* The environment, while the server is down or up: the metadata.json of one
\* directory is truncated or made unreadable.
DamageDir(k) ==
    /\ k \in DOMAIN files
    /\ Parses(files[k])
    /\ files' = [files EXCEPT ![k].metadata = NotJson]
    /\ UNCHANGED <<functions, cells, dirty, dirs, rlast, uvars, dvars, pvars, avars, svars, fvars, bvars>>

----------------------------------------------------------------------------
(* UserManager, src/src/user.rs *)

\* Tokens are 32 random bytes; the model draws them without collision, as
\* successive numbers. The session root token is generated first.
RootToken == 0
MaxTokens == 2
TokenIds == 1..MaxTokens
\* The clock runs from 0 to MaxTime; a token lives for one of Durations ticks.
MaxTime == 2
Durations == {0, 1}

ROOT_USERNAME == "root"

\* The groups users hold or requests require in the model.
GroupUniverse == {Permission("read"), Permission("admin"), Singular("alice")}
GroupSets == SUBSET GroupUniverse

\* User::new
User(name, groups) == [name |-> name, groups |-> groups, tokens |-> <<>>]

\* User::is_in
is_in(user, group) ==
    IF group.kind = "singular" THEN user.name = group.val
    ELSE group \in user.groups

\* User::is_token_valid
is_token_valid(user, token) ==
    /\ token \in DOMAIN user.tokens
    /\ now < user.tokens[token]

\* User::add_token: expired tokens are dropped, the new one is stored.
user_add_token(user, token, duration) ==
    LET kept == {t \in DOMAIN user.tokens : now < user.tokens[t]} IN
    [user EXCEPT !.tokens = [t \in kept \cup {token} |->
                                IF t = token THEN now + duration ELSE user.tokens[t]]]

\* UserManager::auth. A root-token mutant first.
AuthNoRoot(token, groups) ==
    /\ token \in DOMAIN tokens
    /\ tokens[token] \in DOMAIN users
    /\ \A g \in groups : g \in users[tokens[token]].groups

Auth(token, groups) ==
    IF token = RootToken THEN TRUE
    ELSE /\ token \in DOMAIN tokens
         /\ tokens[token] \in DOMAIN users
         /\ \A g \in groups : g \in users[tokens[token]].groups

\* UserManager::user_name
user_name(token) ==
    IF token = RootToken THEN "root"
    ELSE IF token \in DOMAIN tokens THEN tokens[token] ELSE None

ULast(op, name, token, groups, res) ==
    [op |-> op, name |-> name, token |-> token, groups |-> groups, res |-> res]

NextToken == Cardinality(DOMAIN issued) + 1

\* UserManager::add
\* The call of add as it acts on the user manager.
UAdd_call(name, groups) ==
    LET dup == name = ROOT_USERNAME \/ name \in DOMAIN users IN
    /\ users' = IF dup THEN users ELSE Put(users, name, User(name, groups))
    /\ udirty' = IF dup THEN udirty ELSE TRUE
    /\ ulast' = ULast("add", name, RootToken, {}, IF dup THEN "Duplicated" ELSE "Ok")
    /\ UNCHANGED <<ufile, tokens, now, issued>>

UAdd(name, groups) ==
    /\ UAdd_call(name, groups)
    /\ UNCHANGED <<rvars, dvars, pvars, avars, svars, fvars, bvars>>

\* UserManager::remove: the token index is left as it is.
URemove(name) ==
    LET found == name \in DOMAIN users IN
    /\ users' = IF found THEN Drop(users, name) ELSE users
    /\ udirty' = IF found THEN TRUE ELSE udirty
    /\ ulast' = ULast("remove", name, RootToken, {}, IF found THEN "Ok" ELSE "NotFound")
    /\ UNCHANGED <<ufile, tokens, now, issued, rvars, dvars, pvars, avars, svars, fvars, bvars>>

\* UserManager::add_token
UAddToken(name, duration) ==
    LET found == name \in DOMAIN users
        token == NextToken
    IN
    /\ NextToken <= MaxTokens
    /\ users' = IF found
                THEN [users EXCEPT ![name] = user_add_token(users[name], token, duration)]
                ELSE users
    /\ tokens' = IF found THEN Put(tokens, token, name) ELSE tokens
    /\ issued' = IF found
                 THEN Put(issued, token, [user |-> name, expiry |-> now + duration])
                 ELSE issued
    /\ udirty' = IF found THEN TRUE ELSE udirty
    /\ ulast' = ULast("add_token", name, IF found THEN token ELSE RootToken, {},
                      IF found THEN "Ok" ELSE "NotFound")
    /\ UNCHANGED <<ufile, now, rvars, dvars, pvars, avars, svars, fvars, bvars>>

\* UserManager::peek_mut with the closure of the modify endpoint, which
\* replaces the groups.
\* The call of peek_mut as it acts on the user manager.
UPeekMut_call(name, groups) ==
    LET isroot == name = ROOT_USERNAME
        found == name \in DOMAIN users
    IN
    /\ users' = IF ~isroot /\ found THEN [users EXCEPT ![name].groups = groups] ELSE users
    /\ udirty' = IF ~isroot /\ found THEN TRUE ELSE udirty
    /\ ulast' = ULast("peek_mut", name, RootToken, {},
                      IF isroot THEN "None" ELSE IF found THEN "Ok" ELSE "NotFound")
    /\ UNCHANGED <<ufile, tokens, now, issued>>

UPeekMut(name, groups) ==
    /\ UPeekMut_call(name, groups)
    /\ UNCHANGED <<rvars, dvars, pvars, avars, svars, fvars, bvars>>

\* A call of UserManager::auth; the manager is not changed.
UAuth(token, groups) ==
    /\ ulast' = ULast("auth", None, token, groups,
                      IF Auth(token, groups) THEN "true" ELSE "false")
    /\ UNCHANGED <<ufile, users, tokens, udirty, now, issued, rvars, dvars, pvars, avars, svars, fvars, bvars>>

\* A call of UserManager::user_name.
UUserName(token) ==
    /\ ulast' = ULast("user_name", None, token, {}, user_name(token))
    /\ UNCHANGED <<ufile, users, tokens, udirty, now, issued, rvars, dvars, pvars, avars, svars, fvars, bvars>>

\* Wall-clock time passes.
Tick ==
    /\ now < MaxTime
    /\ now' = now + 1
    /\ UNCHANGED <<ufile, users, tokens, udirty, issued, ulast, rvars, dvars, pvars, avars, svars, fvars, bvars>>

----------------------------------------------------------------------------
(* Periodic save and graceful shutdown, src/src/main.rs, with
   FunctionManager::write_all_to_fs and UserManager::write_all_to_fs *)

\* One entry of users.json: a User as serde writes it, groups as text; an
\* entry that is not valid JSON for a User has valid = FALSE.
user_to_json(u) ==
    [valid |-> TRUE, name |-> u.name, groups |-> {GroupText(g) : g \in u.groups},
     tokens |-> u.tokens]

\* users.json: absent, or present with its entries in file order; readable
\* is whether File::open succeeds on a present file.
UsersFile(entries) == [exists |-> TRUE, readable |-> TRUE, entries |-> entries]
NoUsersFile == [exists |-> FALSE, readable |-> TRUE, entries |-> <<>>]

\* serde_json::to_vec(&SerializedUsers { users }): the users in the order
\* iter_sync visited them.
users_to_file(U, order) == UsersFile([i \in DOMAIN order |-> user_to_json(U[order[i]])])

\* One entry of users.json read back by serde.
user_from_json(j) ==
    [name |-> j.name, groups |-> {group_from_str(g) : g \in j.groups}, tokens |-> j.tokens]

ULoad(res, U, T) == [res |-> res, users |-> U, tokens |-> T]

\* The loop of UserManager::read_from_fs over the deserialised users: the
\* tokens that expire after t enter the index (insert_sync, a held slot is
\* kept), then the user is inserted; a held name returns Duplicated from the
\* loop with what was loaded so far.
RECURSIVE load_users(_, _, _)
load_users(m, entries, t) ==
    IF entries = <<>> THEN m
    ELSE LET u == user_from_json(Head(entries))
             live == {k \in DOMAIN u.tokens : u.tokens[k] > t}
             T == [k \in DOMAIN m.tokens \cup live |->
                      IF k \in DOMAIN m.tokens THEN m.tokens[k] ELSE u.name]
         IN IF u.name \in DOMAIN m.users
            THEN ULoad("Duplicated", m.users, T)
            ELSE load_users(ULoad("Ok", Put(m.users, u.name, u), T), Tail(entries), t)

\* UserManager::read_from_fs at time t: Initialized on a manager that holds
\* users; Ok with nothing loaded when users.json is absent; the error of
\* File::open; the error of serde_json::from_reader when any part of the
\* file does not deserialise; otherwise the loop.
user_read_from_fs(U, T, file, t) ==
    IF DOMAIN U # {} THEN ULoad("Initialized", U, T)
    ELSE IF ~file.exists THEN ULoad("Ok", U, T)
    ELSE IF ~file.readable THEN ULoad("Io", U, T)
    ELSE IF \E i \in DOMAIN file.entries : ~file.entries[i].valid
         THEN ULoad("ParseJson", U, T)
    ELSE load_users(ULoad("Ok", U, T), file.entries, t)

\* A restart on the same root: UserManager::new, then read_from_fs (main).
URestart ==
    LET r == user_read_from_fs(<<>>, <<>>, ufile, now) IN
    /\ users' = r.users
    /\ tokens' = r.tokens
    /\ udirty' = FALSE
    /\ ulast' = ULast("read_from_fs", None, RootToken, {}, r.res)
    /\ UNCHANGED <<ufile, now, issued, rvars, dvars, pvars, avars, svars, fvars, bvars>>

\* UserManager::write_all_to_fs as a whole: the users are collected in the
\* order iter_sync visits them, users.json is written, dirty is cleared.
user_write_all_to_fs(order) ==
    /\ order \in Orders(DOMAIN users)
    /\ ufile' = users_to_file(users, order)
    /\ udirty' = FALSE
    /\ ulast' = ULast("write_all", None, RootToken, {}, "Ok")
    /\ UNCHANGED <<users, tokens, now, issued, rvars, dvars, pvars, avars, svars, fvars, bvars>>

\* The most entries a damaged users.json holds.
MaxEntries == 3
DamageKinds == {"invalid", "duplicate"}

\* The environment: one entry of users.json is made invalid JSON for a User,
\* or an entry is written a second time at the end of the file.
UDamage(i, kind) ==
    /\ ufile.exists
    /\ i \in DOMAIN ufile.entries
    /\ IF kind = "invalid"
       THEN /\ ufile.entries[i].valid
            /\ ufile' = [ufile EXCEPT !.entries[i].valid = FALSE]
       ELSE /\ Len(ufile.entries) < MaxEntries
            /\ ufile' = [ufile EXCEPT !.entries = Append(@, ufile.entries[i])]
    /\ UNCHANGED <<users, tokens, udirty, now, issued, ulast, rvars, dvars, pvars, avars, svars, fvars, bvars>>

\* The save_data calls: the one of the 12-minute loop and the one that
\* follows the shutdown signal.
Savers == {"periodic", "shutdown"}

\* A save_data call: its position, the serialised functions and the users it
\* collected, and the keys whose per-function write failed in its last
\* write_all_to_fs; anyfailed is history, whether a write ever failed.
SaveIdle == [pc |-> "idle", snap |-> Reg(<<>>, <<>>), usnap |-> <<>>, failed |-> {},
             anyfailed |-> FALSE]

\* The position after save_data returns: the loop sleeps and calls it again,
\* the shutdown future is completed.
Finished(s) == IF s = "shutdown" THEN "done" ELSE "idle"

\* The registry restricted to the keys whose write did not fail.
Written(R, failed) == Reg([k \in DOMAIN R.functions \ failed |-> R.functions[k]], R.cells)

\* The flag after write_all_to_fs: stored false whatever the per-function
\* writes returned. A mutant that keeps the flag after a failed write first.
dirty_after_write_if_complete(d, failed) == IF failed = {} THEN FALSE ELSE d

dirty_after_write(d, failed) == FALSE

\* save_data starts: funcs.is_dirty(); when dirty, write_all_to_fs serialises
\* every entry under iter_sync before any file is written.
SaveBegin(s) ==
    /\ save[s].pc = "idle"
    /\ IF s = "shutdown" THEN phase = "stopping" ELSE phase # "exited"
    /\ save' = [save EXCEPT ![s].pc = IF dirty THEN "write" ELSE "ucheck",
                            ![s].snap = IF dirty THEN CurReg ELSE Reg(<<>>, <<>>)]
    /\ UNCHANGED <<phase, rvars, uvars, dvars, pvars, avars, fvars, bvars>>

\* The spawned per-function writes are joined: the keys in failed hit an I/O
\* error, which is logged; the others have their two files written.
SaveWrite(s, failed) ==
    /\ save[s].pc = "write"
    /\ phase # "exited"
    /\ failed \subseteq DOMAIN save[s].snap.functions
    /\ files' = priv_write_all_to_fs(Written(save[s].snap, failed), files)
    /\ dirs' = dirs \cup (DOMAIN save[s].snap.functions \ failed)
    /\ save' = [save EXCEPT ![s].pc = "clear", ![s].failed = failed,
                            ![s].anyfailed = @ \/ failed # {}]
    /\ UNCHANGED <<functions, cells, dirty, rlast, phase, uvars, dvars, pvars, avars, fvars, bvars>>

\* write_all_to_fs stores false to dirty and returns Ok.
SaveClear(s) ==
    /\ save[s].pc = "clear"
    /\ phase # "exited"
    /\ dirty' = dirty_after_write(dirty, save[s].failed)
    /\ rlast' = RLast("write_all", NoKey, None, "Ok")
    /\ save' = [save EXCEPT ![s].pc = "ucheck"]
    /\ UNCHANGED <<functions, cells, dirs, files, phase, uvars, dvars, pvars, avars, fvars, bvars>>

\* users.is_dirty(); when dirty, UserManager::write_all_to_fs collects the
\* users.
SaveUBegin(s) ==
    /\ save[s].pc = "ucheck"
    /\ phase # "exited"
    /\ save' = [save EXCEPT ![s].pc = IF udirty THEN "uwrite" ELSE Finished(s),
                            ![s].usnap = IF udirty THEN users ELSE <<>>]
    /\ UNCHANGED <<phase, rvars, uvars, dvars, pvars, avars, fvars, bvars>>

\* users.json is written; an I/O error is returned and logged by save_data,
\* with dirty left as it is.
SaveUWrite(s, order, io_ok) ==
    /\ save[s].pc = "uwrite"
    /\ phase # "exited"
    /\ order \in Orders(DOMAIN save[s].usnap)
    /\ ufile' = IF io_ok THEN users_to_file(save[s].usnap, order) ELSE ufile
    /\ save' = [save EXCEPT ![s].pc = IF io_ok THEN "uclear" ELSE Finished(s),
                            ![s].anyfailed = @ \/ ~io_ok]
    /\ UNCHANGED <<users, tokens, udirty, now, issued, ulast, phase, rvars, dvars, pvars, avars, fvars, bvars>>

\* UserManager::write_all_to_fs stores false to dirty and returns Ok.
SaveUClear(s) ==
    /\ save[s].pc = "uclear"
    /\ phase # "exited"
    /\ udirty' = FALSE
    /\ ulast' = ULast("write_all", None, RootToken, {}, "Ok")
    /\ save' = [save EXCEPT ![s].pc = Finished(s)]
    /\ UNCHANGED <<users, tokens, now, issued, ufile, phase, rvars, dvars, pvars, avars, fvars, bvars>>

\* SIGINT or SIGTERM arrives: the graceful-shutdown future goes on to
\* save_data.
ShutdownSignal ==
    /\ phase = "running"
    /\ phase' = "stopping"
    /\ UNCHANGED <<save, rvars, uvars, dvars, pvars, avars, fvars, bvars>>

\* The shutdown save_data has returned: the server stops and main returns,
\* which drops the runtime with whatever the save loop was doing.
Exit ==
    /\ phase = "stopping"
    /\ save["shutdown"].pc = "done"
    /\ phase' = "exited"
    /\ UNCHANGED <<save, rvars, uvars, dvars, pvars, avars, fvars, bvars>>

\* Calls of the control API that arrive before the signal.
ModifyConfigRunning(key, config) == phase = "running" /\ modify_config(key, config)
AddFuncRunning(key) == phase = "running" /\ add_func(key, NoGroup, TRUE)
UAddRunning(name, groups) == phase = "running" /\ UAdd(name, groups)

----------------------------------------------------------------------------
(* Deployment coordinator, src/src/main.rs *)

\* The number of deploy and kill requests of a run.
NumTasks == 3
Tasks == 1..NumTasks

\* The keys requests are made for.
DeployKeys == {Key("fn", "v1")}

\* Key::to_host_prefix: "<version>.<name>", as its parts.
to_host_prefix(key) == <<key.version, ".", key.name>>

\* Authority::from_maybe_shared(addr.to_string()): "<ip>:<port>".
ToAuthority(addr) == <<addr.ip, ":", addr.port>>

NoPid == 0
\* overlapped is history: for a stop_fn call, whether a start_fn call on the
\* same key was in progress at some point between its arrival and its return.
IdleTask == [op |-> "none", key |-> NoKey, pc |-> "idle", pid |-> NoPid,
             auth |-> ToAuthority(DefaultAddr), sandbox |-> DefaultSandbox,
             res |-> None, overlapped |-> FALSE]

\* A start_fn call on the key is in progress.
StartInProgress(key) ==
    \E u \in Tasks : /\ tasks[u].op = "start" /\ tasks[u].key = key
                     /\ tasks[u].pc \notin {"idle", "done"}

\* A start_fn call on the key arrives: the stop_fn calls in progress on the
\* key are overlapped by it.
MarkOverlapped(ts, key) ==
    [u \in Tasks |->
        IF ts[u].op = "stop" /\ ts[u].key = key /\ ts[u].pc \in {"kill", "unproxy"}
        THEN [ts[u] EXCEPT !.overlapped = TRUE]
        ELSE ts[u]]

\* Requests are numbered in their order of arrival.
CanIssue(t) ==
    /\ tasks[t].pc = "idle"
    /\ \A u \in Tasks : u < t => tasks[u].pc # "idle"

Return(t, res) == [tasks EXCEPT ![t].pc = "done", ![t].res = res]

\* handles.insert_sync: fails when the key is occupied. An upsert mutant first.
InsertHandleUpsert(h, key, pid) == [ok |-> TRUE, map |-> Put(h, key, pid)]

InsertHandle(h, key, pid) ==
    IF key \in DOMAIN h THEN [ok |-> FALSE, map |-> h]
    ELSE [ok |-> TRUE, map |-> Put(h, key, pid)]

\* proxies.insert_sync: an occupied prefix keeps its authority.
InsertProxy(p, prefix, auth) == IF prefix \in DOMAIN p THEN p ELSE Put(p, prefix, auth)

\* sandbox::Handle::kill. A mutant that leaves the process alive first.
KillNothing(ps, pid) == ps

Kill(ps, pid) == [ps EXCEPT ![pid].alive = FALSE]

\* LocalCx::is_running: Child::id() is Some for a handle that was not killed.
is_running(key) == IF key \in DOMAIN handles THEN procs[handles[key]].alive ELSE FALSE

\* start_fn, up to the await of Sandbox::spawn: the function is fetched, its
\* sandbox config and address are read.
StartFetch(t, key) ==
    LET c == get(CurReg, key) IN
    /\ CanIssue(t)
    /\ tasks' = IF c = NoCell
                THEN [tasks EXCEPT ![t] = [IdleTask EXCEPT !.op = "start", !.key = key,
                                              !.pc = "done", !.res = "NotFound"]]
                ELSE [MarkOverlapped(tasks, key)
                         EXCEPT ![t] = [IdleTask EXCEPT !.op = "start", !.key = key,
                                              !.pc = "spawn",
                                              !.sandbox = cells[c].config.sandbox,
                                              !.auth = ToAuthority(cells[c].config.addr)]]
    /\ UNCHANGED <<handles, proxies, procs, started, rvars, uvars, pvars, avars, svars, fvars, bvars>>

\* start_fn, the other outcome of its first part: the function is fetched and
\* Authority::from_maybe_shared rejects the text of its address; the `?`
\* returns InvalidSocketAddrAsUri before Sandbox::spawn is called.
StartFetchInvalid(t, key) ==
    /\ CanIssue(t)
    /\ get(CurReg, key) # NoCell
    /\ tasks' = [tasks EXCEPT ![t] = [IdleTask EXCEPT !.op = "start", !.key = key,
                                          !.pc = "done",
                                          !.res = "InvalidSocketAddrAsUri"]]
    /\ UNCHANGED <<handles, proxies, procs, started, rvars, uvars, pvars, avars, svars, fvars, bvars>>

\* The environment of the server process, which bwrap inherits.
HostEnv == "PATH" :> "/usr/bin"

\* bwrap_args, the environment part: --setenv k v for Some(v), --unsetenv k
\* for None, applied to the inherited environment.
bwrap_env(host_env, envs) ==
    [k \in (DOMAIN host_env \cup {x \in DOMAIN envs : envs[x] # None})
            \ {x \in DOMAIN envs : envs[x] = None} |->
        IF k \in DOMAIN envs THEN envs[k] ELSE host_env[k]]

\* SandboxConfig with the fields bwrap_args reads: ro_entries maps a source
\* path to Some(destination) or None, envs a variable to Some(value) or None;
\* procfs, devtmpfs and tmpfs are platform_ext.mount_*.
BwrapConfig(command, args, ro_entries, envs, procfs, devtmpfs, tmpfs) ==
    [command |-> command, args |-> args, ro_entries |-> ro_entries, envs |-> envs,
     mount_procfs |-> procfs, mount_devtmpfs |-> devtmpfs, mount_tmpfs |-> tmpfs]

MOUNT_POINT_CONTENTS == "/.__private_yfass_contents"

\* The None of the Option<OwnedFd> a compiled seccomp filter comes in.
NoFd == -1

\* One --ro-bind-try triple per entry, in the order the HashMap yields them.
RECURSIVE ro_args(_, _)
ro_args(ro_entries, order) ==
    IF order = <<>> THEN <<>>
    ELSE LET src == Head(order)
             dst == ro_entries[src]
         IN <<"--ro-bind-try", src, IF dst = None THEN src ELSE dst>>
            \o ro_args(ro_entries, Tail(order))

\* --setenv k v or --unsetenv k per entry, in the order the HashMap yields them.
RECURSIVE env_args(_, _)
env_args(envs, order) ==
    IF order = <<>> THEN <<>>
    ELSE LET k == Head(order) IN
         (IF envs[k] # None THEN <<"--setenv", k, envs[k]>> ELSE <<"--unsetenv", k>>)
         \o env_args(envs, Tail(order))

\* bwrap_args with the environment before the read-only binds. A mutant, first.
bwrap_args_env_first(config, bpf_fd, ro_order, env_order) ==
    <<"--unshare-all", "--share-net", "--new-session",
      "--ro-bind", "./", MOUNT_POINT_CONTENTS,
      "--chdir", MOUNT_POINT_CONTENTS,
      "--die-with-parent">>
    \o (IF config.mount_procfs THEN <<"--proc", "/proc">> ELSE <<>>)
    \o (IF config.mount_devtmpfs THEN <<"--dev", "/dev">> ELSE <<>>)
    \o (IF config.mount_tmpfs THEN <<"--tmpfs", "/tmp">> ELSE <<>>)
    \o env_args(config.envs, env_order)
    \o ro_args(config.ro_entries, ro_order)
    \o (IF bpf_fd # NoFd THEN <<"--seccomp", ToString(bpf_fd)>> ELSE <<>>)
    \o <<"--", config.command>>
    \o config.args

\* bwrap_args: the argument list bwrap is started with.
bwrap_args(config, bpf_fd, ro_order, env_order) ==
    <<"--unshare-all", "--share-net", "--new-session",
      "--ro-bind", "./", MOUNT_POINT_CONTENTS,
      "--chdir", MOUNT_POINT_CONTENTS,
      "--die-with-parent">>
    \o (IF config.mount_procfs THEN <<"--proc", "/proc">> ELSE <<>>)
    \o (IF config.mount_devtmpfs THEN <<"--dev", "/dev">> ELSE <<>>)
    \o (IF config.mount_tmpfs THEN <<"--tmpfs", "/tmp">> ELSE <<>>)
    \o ro_args(config.ro_entries, ro_order)
    \o env_args(config.envs, env_order)
    \o (IF bpf_fd # NoFd THEN <<"--seccomp", ToString(bpf_fd)>> ELSE <<>>)
    \o <<"--", config.command>>
    \o config.args

BLast(op, config, bpf_fd, args) ==
    [op |-> op, config |-> config, bpf_fd |-> bpf_fd, args |-> args]

\* A call of bwrap_args by Sandbox::spawn.
BwrapArgs(config, bpf_fd, ro_order, env_order) ==
    /\ ro_order \in Orders(DOMAIN config.ro_entries)
    /\ env_order \in Orders(DOMAIN config.envs)
    /\ blast' = BLast("bwrap_args", config, bpf_fd,
                      bwrap_args(config, bpf_fd, ro_order, env_order))
    /\ UNCHANGED <<rvars, uvars, dvars, pvars, avars, svars, fvars>>

\* A spawn that leaves a process behind when it reports an I/O error.
StartSpawnLeak(t, spawn_ok) ==
    /\ tasks[t].pc = "spawn"
    /\ procs' = Append(procs, [key |-> tasks[t].key, alive |-> TRUE,
                               env |-> bwrap_env(HostEnv, tasks[t].sandbox.envs)])
    /\ tasks' = IF spawn_ok
                THEN [tasks EXCEPT ![t].pc = "insert", ![t].pid = Len(procs) + 1]
                ELSE Return(t, "Io")
    /\ UNCHANGED <<handles, proxies, started, rvars, uvars, pvars, avars, svars, fvars, bvars>>

\* Sandbox::spawn returns: a new process, or an I/O error.
StartSpawn(t, spawn_ok) ==
    /\ tasks[t].pc = "spawn"
    /\ IF spawn_ok
       THEN /\ procs' = Append(procs, [key |-> tasks[t].key, alive |-> TRUE,
                                       env |-> bwrap_env(HostEnv, tasks[t].sandbox.envs)])
            /\ tasks' = [tasks EXCEPT ![t].pc = "insert", ![t].pid = Len(procs) + 1]
       ELSE /\ procs' = procs
            /\ tasks' = Return(t, "Io")
    /\ UNCHANGED <<handles, proxies, started, rvars, uvars, pvars, avars, svars, fvars, bvars>>

\* handles.insert_sync(key, handle)
StartInsert(t) ==
    LET r == InsertHandle(handles, tasks[t].key, tasks[t].pid) IN
    /\ tasks[t].pc = "insert"
    /\ handles' = r.map
    /\ tasks' = [tasks EXCEPT ![t].pc = IF r.ok THEN "proxy" ELSE "kill_dup"]
    /\ UNCHANGED <<proxies, procs, started, rvars, uvars, pvars, avars, svars, fvars, bvars>>

\* The key was occupied: the fresh handle is killed.
StartKillDup(t) ==
    /\ tasks[t].pc = "kill_dup"
    /\ procs' = Kill(procs, tasks[t].pid)
    /\ tasks' = Return(t, "InstanceAlreadyRunning")
    /\ UNCHANGED <<handles, proxies, started, rvars, uvars, pvars, avars, svars, fvars, bvars>>

\* proxies.insert_sync(to_host_prefix(key), auth_uri); start_fn returns Ok.
StartProxy(t) ==
    /\ tasks[t].pc = "proxy"
    /\ proxies' = InsertProxy(proxies, to_host_prefix(tasks[t].key), tasks[t].auth)
    /\ tasks' = Return(t, "Ok")
    /\ started' = started \cup {tasks[t].key}
    /\ UNCHANGED <<handles, procs, rvars, uvars, pvars, avars, svars, fvars, bvars>>

\* stop_fn, up to the await of kill: handles.remove_sync(key).
StopRemove(t, key) ==
    /\ CanIssue(t)
    /\ started' = started \ {key}
    /\ IF key \in DOMAIN handles
       THEN /\ handles' = Drop(handles, key)
            /\ tasks' = [tasks EXCEPT ![t] = [IdleTask EXCEPT !.op = "stop", !.key = key,
                                                  !.pc = "kill", !.pid = handles[key],
                                                  !.overlapped = StartInProgress(key)]]
       ELSE /\ handles' = handles
            /\ tasks' = [tasks EXCEPT ![t] = [IdleTask EXCEPT !.op = "stop", !.key = key,
                                                  !.pc = "done", !.res = "NotFound"]]
    /\ UNCHANGED <<proxies, procs, rvars, uvars, pvars, avars, svars, fvars, bvars>>

\* sandbox::Handle::kill(handle).await
StopKill(t) ==
    /\ tasks[t].pc = "kill"
    /\ procs' = Kill(procs, tasks[t].pid)
    /\ tasks' = [tasks EXCEPT ![t].pc = "unproxy"]
    /\ UNCHANGED <<handles, proxies, started, rvars, uvars, pvars, avars, svars, fvars, bvars>>

\* proxies.remove_sync(to_host_prefix(key)); stop_fn returns Ok.
StopProxy(t) ==
    /\ tasks[t].pc = "unproxy"
    /\ proxies' = Drop(proxies, to_host_prefix(tasks[t].key))
    /\ tasks' = Return(t, "Ok")
    /\ UNCHANGED <<handles, procs, started, rvars, uvars, pvars, avars, svars, fvars, bvars>>

----------------------------------------------------------------------------
(* Proxy middleware, src/src/proxy.rs *)

\* Host names are sequences of string pieces; "." and ":" are pieces of
\* their own, a label or a port number is one piece.
ConfiguredHost == "example.test"
ConfiguredPort == "8080"

\* LocalCx.host_with_dot_prefixed and LocalCx.host_port_with_dot_prefixed
host_with_dot_prefixed == <<".", ConfiguredHost>>
host_port_with_dot_prefixed == <<".", ConfiguredHost, ":", ConfiguredPort>>

\* The None of Option<&str>.
NoStrip == <<None>>

\* str::strip_suffix. A mutant that does not compare the suffix first.
strip_suffix_unchecked(str, suffix) ==
    IF Len(str) >= Len(suffix) THEN SubSeq(str, 1, Len(str) - Len(suffix)) ELSE NoStrip

strip_suffix(str, suffix) ==
    IF /\ Len(str) >= Len(suffix)
       /\ SubSeq(str, Len(str) - Len(suffix) + 1, Len(str)) = suffix
    THEN SubSeq(str, 1, Len(str) - Len(suffix))
    ELSE NoStrip

\* A request: whether it has a Host header, whether HeaderValue::to_str
\* accepts it, and its text.
Request(has_host, is_str, host) == [has_host |-> has_host, is_str |-> is_str, host |-> host]

NoAuthority == ToAuthority(Addr(None, 0))
ToControlApi == [route |-> "control_api", target |-> NoAuthority, err |-> None]
ToFunction(authority) == [route |-> "function", target |-> authority, err |-> None]
Rejected(e) == [route |-> "error", target |-> NoAuthority, err |-> e]

\* Mutant of forward_http_req: a prefix without an entry falls through to the
\* control API.
forward_http_req_fallthrough(P, request) ==
    IF ~request.has_host THEN Rejected("MissingHost")
    ELSE IF ~request.is_str THEN ToControlApi
    ELSE LET s1 == strip_suffix(request.host, host_with_dot_prefixed)
             s2 == strip_suffix(request.host, host_port_with_dot_prefixed)
             func_key == IF s1 # NoStrip THEN s1 ELSE s2
         IN IF func_key = NoStrip THEN ToControlApi
            ELSE IF func_key \in DOMAIN P THEN ToFunction(P[func_key])
            ELSE ToControlApi

\* forward_http_req, up to the point the request is sent on: to the control
\* API router (next.run), to the authority of a function, or refused.
forward_http_req(P, request) ==
    IF ~request.has_host THEN Rejected("MissingHost")
    ELSE IF ~request.is_str THEN ToControlApi
    ELSE LET s1 == strip_suffix(request.host, host_with_dot_prefixed)
             s2 == strip_suffix(request.host, host_port_with_dot_prefixed)
             func_key == IF s1 # NoStrip THEN s1 ELSE s2
         IN IF func_key = NoStrip THEN ToControlApi
            ELSE IF func_key \in DOMAIN P THEN ToFunction(P[func_key])
            ELSE Rejected("FunctionNotRunning")

PLast(request, out) == [request |-> request, out |-> out]

\* What the request carries about websockets: nothing; the headers of an
\* upgrade that WebSocketUpgrade accepts; or the headers of an upgrade
\* (maybe_ws_request holds) that WebSocketUpgrade rejects.
WsKinds == {"none", "upgrade", "malformed"}

\* maybe_ws_request: Connection contains "upgrade" and Upgrade is "websocket".
maybe_ws_request(ws) == ws # "none"

\* The sandboxed function as the proxy sees it: whether it can be reached,
\* and the status and body it answers with.
Upstream(reachable, status, body) == [reachable |-> reachable, status |-> status, body |-> body]
OkUpstream == Upstream(TRUE, "200", "pong")

\* The URI parts the request is sent on with; NotSent when it is not sent on.
Sent(scheme, authority) == [scheme |-> scheme, authority |-> authority]
NotSent == Sent(None, NoAuthority)

\* Error::status_code, for the errors of the proxy.
status_code(e) ==
    IF e = "MissingHost" THEN "400"
    ELSE IF e = "FunctionNotRunning" THEN "403"
    ELSE "500"

Response(sent, status, body, err) == [sent |-> sent, status |-> status, body |-> body, err |-> err]
ErrorResponse(sent, e) == Response(sent, status_code(e), e, e)

\* forward_http_req, from the rewrite of the URI to the response: a websocket
\* upgrade is connected with connect_async, which fails unless the upstream
\* answers 101, and the client gets the upgrade response of this server;
\* anything else goes through the HTTP client and the upstream's response is
\* handed back.
proxy_response(P, request, ws, upstream) ==
    LET out == forward_http_req(P, request) IN
    IF out.route = "control_api" THEN Response(NotSent, "router", None, None)
    ELSE IF out.route = "error" THEN ErrorResponse(NotSent, out.err)
    ELSE LET sent == Sent(IF maybe_ws_request(ws) THEN "ws" ELSE "http", out.target) IN
         IF ws = "upgrade"
         THEN IF upstream.reachable /\ upstream.status = "101"
              THEN Response(sent, "101", "", None)
              ELSE ErrorResponse(sent, "WebsocketConnection")
         ELSE IF upstream.reachable
              THEN Response(sent, upstream.status, upstream.body, None)
              ELSE ErrorResponse(sent, "Client")

\* A request passes through the middleware.
Serve(request, ws, upstream) ==
    /\ plast' = PLast(request, forward_http_req(proxies, request))
    /\ presp' = [ws |-> ws, upstream |-> upstream,
                 response |-> proxy_response(proxies, request, ws, upstream)]
    /\ UNCHANGED <<rvars, uvars, dvars, avars, svars, fvars, bvars>>

\* A plain HTTP request, which the function, when reached, answers with 200.
Forward(request) == Serve(request, "none", OkUpstream)

----------------------------------------------------------------------------
(* Request authenticator and user endpoints, src/src/main.rs and
   src/src/service/user.rs *)

\* The bits of PermissionFlags, from bit 0 up, as PermissionFlags::to_permission
\* maps them.
FlagPermissions == <<"read", "write", "execute", "remove", "admin", "root">>
PermissionNames == Range(FlagPermissions)

BitSet(P, i) == (P \div (2^i)) % 2 = 1

\* flags.iter().filter_map(to_permission).map(Group::Permission)
MaskGroups(P) == {Permission(FlagPermissions[i + 1]) : i \in {j \in 0..5 : BitSet(P, j)}}

\* Header text is a sequence of string pieces: a scheme with its trailing
\* space, a blank, or a token.
AUTH_PREFIX == "Bearer "
Blank == " "

\* An Authorization header: whether the request has one, whether
\* HeaderValue::to_str accepts it, and its text.
Header(present, is_str, text) == [present |-> present, is_str |-> is_str, text |-> text]

\* str::strip_prefix
strip_prefix(text, prefix) ==
    IF Len(text) >= 1 /\ Head(text) = prefix THEN Tail(text) ELSE NoStrip

\* str::trim
RECURSIVE trim_start(_)
trim_start(text) ==
    IF Len(text) >= 1 /\ Head(text) = Blank THEN trim_start(Tail(text)) ELSE text
RECURSIVE trim_end(_)
trim_end(text) ==
    IF Len(text) >= 1 /\ text[Len(text)] = Blank
    THEN trim_end(SubSeq(text, 1, Len(text) - 1))
    ELSE text
trim(text) == trim_end(trim_start(text))

\* The text of a token, and the token a text denotes: a text no token has
\* denotes a token that was never issued.
TokenText(token) == <<ToString(token)>>
UnknownToken == MaxTokens + 1
TokenOf(text) ==
    IF \E t \in {RootToken} \cup TokenIds : TokenText(t) = text
    THEN CHOOSE t \in {RootToken} \cup TokenIds : TokenText(t) = text
    ELSE UnknownToken

NoText == <<>>
Accept(text) == [res |-> "Ok", token |-> text]
Reject(e) == [res |-> e, token |-> NoText]

\* impl FromRequestParts for Auth<P>. A mutant that skips the user manager
\* first.
from_request_parts_no_auth(P, header) ==
    IF ~header.present THEN Reject("Unauthorized")
    ELSE IF ~header.is_str THEN Reject("InvalidHeaderEncoding")
    ELSE IF strip_prefix(header.text, AUTH_PREFIX) = NoStrip THEN Reject("InvalidAuthMethod")
    ELSE Accept(trim(strip_prefix(header.text, AUTH_PREFIX)))

from_request_parts(P, header) ==
    IF ~header.present THEN Reject("Unauthorized")
    ELSE IF ~header.is_str THEN Reject("InvalidHeaderEncoding")
    ELSE IF strip_prefix(header.text, AUTH_PREFIX) = NoStrip THEN Reject("InvalidAuthMethod")
    ELSE LET token == trim(strip_prefix(header.text, AUTH_PREFIX)) IN
         IF Auth(TokenOf(token), MaskGroups(P)) THEN Accept(token)
         ELSE Reject("PermissionDenied")

\* ClientUser, and the value of a call that yields no record.
ClientUser(name, groups) == [name |-> name, groups |-> groups]
NoRecord == ClientUser(None, {})

ALast(op, mask, header, name, res, token, record) ==
    [op |-> op, mask |-> mask, header |-> header, name |-> name, res |-> res,
     token |-> token, record |-> record]

\* A request reaches an endpoint guarded by Auth<P>.
Authenticate(P, header) ==
    LET r == from_request_parts(P, header) IN
    /\ alast' = ALast("auth", P, header, None, r.res, r.token, NoRecord)
    /\ UNCHANGED <<rvars, uvars, dvars, pvars, svars, fvars, bvars>>

\* service::user::client_from_ref
client_from_ref(user) == ClientUser(user.name, user.groups)

\* The record the get endpoint gives for the root account.
RootRecord == ClientUser(ROOT_USERNAME, {Permission("root")})

\* UserManager::peek with client_from_ref: Ok(None) for the root account.
peek(name) ==
    IF name = ROOT_USERNAME THEN [res |-> "Ok", some |-> FALSE, record |-> NoRecord]
    ELSE IF name \in DOMAIN users
    THEN [res |-> "Ok", some |-> TRUE, record |-> client_from_ref(users[name])]
    ELSE [res |-> "NotFound", some |-> FALSE, record |-> NoRecord]

\* UserManager::peek_from_token with the closure of the get endpoint: the
\* caller's own record when no name or its own name is asked for, and whether
\* the caller is in Permission(Admin). Ok(None) for the root token.
peek_from_token(token, name_optional) ==
    LET none == [res |-> "Ok", some |-> FALSE, self |-> FALSE,
                 record |-> NoRecord, admin |-> FALSE]
    IN
    IF token = RootToken THEN none
    ELSE IF token \notin DOMAIN tokens THEN [none EXCEPT !.res = "NotFound"]
    ELSE IF tokens[token] = ROOT_USERNAME THEN none
    ELSE IF tokens[token] \notin DOMAIN users THEN [none EXCEPT !.res = "NotFound"]
    ELSE LET this == users[tokens[token]]
             self == name_optional = None \/ name_optional = this.name
         IN [res |-> "Ok", some |-> TRUE, self |-> self,
             record |-> IF self THEN client_from_ref(this) ELSE NoRecord,
             admin |-> is_in(this, Permission("admin"))]

Found(record) == [res |-> "Ok", record |-> record]
Failed(e) == [res |-> e, record |-> NoRecord]

\* The match of service::user::get on the value peek_from_token gave. A
\* mutant that does not look at the admin flag first.
get_match_no_admin(val, name_optional) ==
    IF val.res # "Ok" THEN Failed(val.res)
    ELSE IF val.some /\ val.self THEN Found(val.record)
    ELSE IF val.some
    THEN LET o == peek(name_optional) IN
         IF o.res # "Ok" THEN Failed(o.res)
         ELSE Found(IF o.some THEN o.record ELSE RootRecord)
    ELSE IF name_optional = None \/ name_optional = ROOT_USERNAME THEN Found(RootRecord)
    ELSE LET o == peek(name_optional) IN
         IF o.res # "Ok" THEN Failed(o.res) ELSE Found(o.record)

get_match(val, name_optional) ==
    IF val.res # "Ok" THEN Failed(val.res)
    ELSE IF val.some /\ val.self THEN Found(val.record)
    ELSE IF val.some /\ val.admin
    THEN LET o == peek(name_optional) IN
         IF o.res # "Ok" THEN Failed(o.res)
         ELSE Found(IF o.some THEN o.record ELSE RootRecord)
    ELSE IF val.some THEN Failed("PermissionDenied")
    ELSE IF name_optional = None \/ name_optional = ROOT_USERNAME THEN Found(RootRecord)
    ELSE LET o == peek(name_optional) IN
         IF o.res # "Ok" THEN Failed(o.res) ELSE Found(o.record)

\* GET_PERMISSION: PermissionFlags::empty().bits()
GET_PERMISSION == 0

\* service::user::get behind its Auth<GET_PERMISSION> extractor.
user_get(header, name_optional) ==
    LET a == from_request_parts(GET_PERMISSION, header) IN
    IF a.res # "Ok" THEN Failed(a.res)
    ELSE get_match(peek_from_token(TokenOf(a.token), name_optional), name_optional)

\* A request to GET /api/user/get[/{user}].
UserGet(header, name_optional) ==
    LET r == user_get(header, name_optional)
        a == from_request_parts(GET_PERMISSION, header)
    IN
    /\ alast' = ALast("get", GET_PERMISSION, header, name_optional, r.res, a.token, r.record)
    /\ UNCHANGED <<rvars, uvars, dvars, pvars, svars, fvars, bvars>>

\* Permission::contains. A mutant in which Execute implies Read first.
contains_execute_reads(self, other) ==
    IF self = "root" THEN TRUE
    ELSE IF other = "read" THEN self \in {"read", "write", "remove", "admin", "execute"}
    ELSE IF other = "write" THEN self \in {"write", "admin"}
    ELSE IF other = "remove" THEN self \in {"remove", "admin"}
    ELSE IF other = "admin" THEN self \in {"admin"}
    ELSE IF other = "execute" THEN self \in {"execute", "admin"}
    ELSE FALSE

contains(self, other) ==
    IF self = "root" THEN TRUE
    ELSE IF other = "read" THEN self \in {"read", "write", "remove", "admin"}
    ELSE IF other = "write" THEN self \in {"write", "admin"}
    ELSE IF other = "remove" THEN self \in {"remove", "admin"}
    ELSE IF other = "admin" THEN self \in {"admin"}
    ELSE IF other = "execute" THEN self \in {"execute", "admin"}
    ELSE FALSE

\* A call of Permission::contains.
PermissionContains(self, other) ==
    /\ alast' = ALast("contains", 0, Header(FALSE, TRUE, <<self, other>>), None,
                      IF contains(self, other) THEN "true" ELSE "false", NoText, NoRecord)
    /\ UNCHANGED <<rvars, uvars, dvars, pvars, svars, fvars, bvars>>

\* A call dropped by its caller. start_fn and stop_fn can only be dropped where
\* they are pending: Bubblewrap::spawn has no await of its own and is ready at
\* its first poll, so the one place is inside Handle::kill, which is
\* tokio::process::Child::kill: start_kill sends the signal, then wait is
\* awaited. A call dropped there has sent the signal and does nothing after.

\* A call dropped before the signal is sent. A mutant, first.
StopCancelBeforeSignal(t) ==
    /\ tasks[t].pc = "kill"
    /\ procs' = procs
    /\ tasks' = Return(t, "Cancelled")
    /\ UNCHANGED <<handles, proxies, started, rvars, uvars, pvars, avars, svars, fvars, bvars>>

\* stop_fn is dropped in the wait of kill: the route is left in the table.
StopCancel(t) ==
    /\ tasks[t].pc = "kill"
    /\ procs' = Kill(procs, tasks[t].pid)
    /\ tasks' = Return(t, "Cancelled")
    /\ UNCHANGED <<handles, proxies, started, rvars, uvars, pvars, avars, svars, fvars, bvars>>

\* start_fn is dropped in the wait of the kill of the handle it could not
\* insert.
StartCancel(t) ==
    /\ tasks[t].pc = "kill_dup"
    /\ procs' = Kill(procs, tasks[t].pid)
    /\ tasks' = Return(t, "Cancelled")
    /\ UNCHANGED <<handles, proxies, started, rvars, uvars, pvars, avars, svars, fvars, bvars>>

----------------------------------------------------------------------------
(* Function endpoints, src/src/service/func.rs *)

\* The characters of the texts that key parts and alias labels are made of.
Chars ==
    "fn" :> <<"f", "n">> @@ "v1" :> <<"v", "1">> @@ "v2" :> <<"v", "2">>
    @@ "latest" :> <<"l", "a", "t", "e", "s", "t">> @@ "" :> <<>>
    @@ "Fn" :> <<"F", "n">> @@ "v.1" :> <<"v", ".", "1">>
    @@ "alice" :> <<"a", "l", "i", "c", "e">> @@ "bob" :> <<"b", "o", "b">>
    @@ "root" :> <<"r", "o", "o", "t">> @@ "Root" :> <<"R", "o", "o", "t">>
    @@ "a_b" :> <<"a", "_", "b">>

is_ascii_lowercase(c) ==
    c \in {"a", "b", "c", "d", "e", "f", "g", "h", "i", "j", "k", "l", "m",
           "n", "o", "p", "q", "r", "s", "t", "u", "v", "w", "x", "y", "z"}
is_ascii_digit(c) == c \in {"0", "1", "2", "3", "4", "5", "6", "7", "8", "9"}

\* validate_key_param accepts any text. A mutant, first.
validate_key_param_any(name) == TRUE

\* validate_key_param: non-empty, and every character in a-z, 0-9 or '-'.
validate_key_param(name) ==
    /\ Chars[name] # <<>>
    /\ \A i \in DOMAIN Chars[name] :
          \/ is_ascii_lowercase(Chars[name][i])
          \/ is_ascii_digit(Chars[name][i])
          \/ Chars[name][i] = "-"

\* The bits of the Auth<P> extractors of the endpoints.
PERMISSION_UPLOAD == 2
PERMISSION_OVERRIDE_CONFIG == 2
PERMISSION_ALIAS == 2
PERMISSION_REMOVE == 8
PERMISSION_DEPLOY == 4
PERMISSION_KILL == 4

CONTENT_TYPE_TAR == "application/x-tar"
CONTENT_TYPE_GZIP == "application/gzip"
CONTENT_TYPE_GZIP_NON_STANDARD == "application/x-gzip"

FLast(op, key, alias, header, res) ==
    [op |-> op, key |-> key, alias |-> alias, header |-> header, res |-> res]

\* config.group.iter(): the groups a call on the function must hold.
FunctionGroups(key) ==
    LET g == cells[functions[key]].config.group IN
    IF g = NoGroup THEN {} ELSE {g}

\* What override_config, alias, remove, deploy and kill do before the call
\* on the manager: the Auth<P> extractor, funcs.get(key), then users.auth
\* with the group of the function.
endpoint_guard(P, header, key) ==
    LET a == from_request_parts(P, header) IN
    IF a.res # "Ok" THEN a.res
    ELSE IF get(CurReg, key) = NoCell THEN "NotFound"
    ELSE IF Auth(TokenOf(a.token), FunctionGroups(key)) THEN "Ok"
    ELSE "PermissionDenied"

\* What upload does before add_func: the Auth and ContentType extractors,
\* validate_key_param on both parts, user_name of the token, the match on
\* the content type. ty is None when the request has no Content-Type.
upload_guard(header, ty, key) ==
    LET a == from_request_parts(PERMISSION_UPLOAD, header) IN
    IF a.res # "Ok" THEN a.res
    ELSE IF ty = None THEN "MissingContentType"
    ELSE IF ~validate_key_param(key.name) \/ ~validate_key_param(key.version)
    THEN "InvalidKeyFormat"
    ELSE IF user_name(TokenOf(a.token)) = None THEN "Unauthorized"
    ELSE IF ty \notin {CONTENT_TYPE_TAR, CONTENT_TYPE_GZIP, CONTENT_TYPE_GZIP_NON_STANDARD}
    THEN "UnsupportedArchiveType"
    ELSE "Ok"

\* The user the upload is stamped with.
Uploader(header) == user_name(TokenOf(from_request_parts(PERMISSION_UPLOAD, header).token))

\* POST /api/upload/{key}
Upload(header, ty, key, tar_ok) ==
    LET g == upload_guard(header, ty, key) IN
    /\ IF g = "Ok"
       THEN /\ add_func_call(key, Singular(Uploader(header)), tar_ok)
            /\ flast' = FLast("upload", key, None, header, rlast'.res)
       ELSE /\ flast' = FLast("upload", key, None, header, g)
            /\ UNCHANGED rvars
    /\ UNCHANGED <<uvars, dvars, pvars, avars, svars, bvars>>

\* POST /api/override/{key}
OverrideConfig(header, key, config) ==
    LET g == endpoint_guard(PERMISSION_OVERRIDE_CONFIG, header, key) IN
    /\ IF g = "Ok"
       THEN /\ modify_config_call(key, config)
            /\ flast' = FLast("override_config", key, None, header, rlast'.res)
       ELSE /\ flast' = FLast("override_config", key, None, header, g)
            /\ UNCHANGED rvars
    /\ UNCHANGED <<uvars, dvars, pvars, avars, svars, bvars>>

\* What alias does before modify_alias: the extractor, validate_key_param
\* on the label of a Some(alias), then the checks of the other endpoints.
alias_guard(header, key, alias) ==
    LET a == from_request_parts(PERMISSION_ALIAS, header) IN
    IF a.res # "Ok" THEN a.res
    ELSE IF alias # None /\ ~validate_key_param(alias) THEN "InvalidKeyFormat"
    ELSE endpoint_guard(PERMISSION_ALIAS, header, key)

\* POST /api/alias/{key}
AliasRequest(header, key, alias) ==
    LET g == alias_guard(header, key, alias) IN
    /\ IF g = "Ok"
       THEN /\ modify_alias_call(key, alias)
            /\ flast' = FLast("alias", key, alias, header, rlast'.res)
       ELSE /\ flast' = FLast("alias", key, alias, header, g)
            /\ UNCHANGED rvars
    /\ UNCHANGED <<uvars, dvars, pvars, avars, svars, bvars>>

\* POST /api/remove/{key}: the function is removed from the manager; handles
\* and the proxy table are not looked at.
Remove(header, key) ==
    LET g == endpoint_guard(PERMISSION_REMOVE, header, key) IN
    /\ IF g = "Ok"
       THEN /\ remove_func_call(key)
            /\ flast' = FLast("remove", key, None, header, rlast'.res)
       ELSE /\ flast' = FLast("remove", key, None, header, g)
            /\ UNCHANGED rvars
    /\ UNCHANGED <<uvars, dvars, pvars, avars, svars, bvars>>

\* POST /api/deploy/{key}: a request the checks let through is a start_fn
\* call, whose result is the response.
Deploy(t, header, key) ==
    LET g == endpoint_guard(PERMISSION_DEPLOY, header, key) IN
    IF g = "Ok"
    THEN StartFetch(t, key)
    ELSE /\ flast' = FLast("deploy", key, None, header, g)
         /\ UNCHANGED <<rvars, uvars, dvars, pvars, avars, svars, bvars>>

\* POST /api/kill/{key}: a request the checks let through is a stop_fn call.
KillRequest(t, header, key) ==
    LET g == endpoint_guard(PERMISSION_KILL, header, key) IN
    IF g = "Ok"
    THEN StopRemove(t, key)
    ELSE /\ flast' = FLast("kill", key, None, header, g)
         /\ UNCHANGED <<rvars, uvars, dvars, pvars, avars, svars, bvars>>

----------------------------------------------------------------------------
(* User endpoints that grant groups, src/src/service/user.rs *)

is_ascii_uppercase(c) ==
    c \in {"A", "B", "C", "D", "E", "F", "G", "H", "I", "J", "K", "L", "M",
           "N", "O", "P", "Q", "R", "S", "T", "U", "V", "W", "X", "Y", "Z"}
is_ascii_alphabetic(c) == is_ascii_lowercase(c) \/ is_ascii_uppercase(c)

\* validate_username_param: the empty name is InvalidUsernameFormat, a
\* character outside A-Z, a-z, 0-9 and '-' is InvalidKeyFormat.
validate_username_param(name) ==
    IF Chars[name] = <<>> THEN "InvalidUsernameFormat"
    ELSE IF \A i \in DOMAIN Chars[name] :
                \/ is_ascii_alphabetic(Chars[name][i])
                \/ is_ascii_digit(Chars[name][i])
                \/ Chars[name][i] = "-"
    THEN "Ok"
    ELSE "InvalidKeyFormat"

\* char::to_ascii_lowercase on the letters the model uses.
LowerOf == "R" :> "r" @@ "F" :> "f"
char_to_ascii_lowercase(c) == IF c \in DOMAIN LowerOf THEN LowerOf[c] ELSE c

\* str::to_ascii_lowercase
to_ascii_lowercase(name) ==
    CHOOSE s \in DOMAIN Chars :
        Chars[s] = [i \in DOMAIN Chars[name] |-> char_to_ascii_lowercase(Chars[name][i])]

ADD_PERMISSION == 16
MODIFY_PERMISSION == 16

\* The groups of a request that are Permission groups.
PermissionGroups(groups) == {g \in groups : g.kind = "permission"}

\* add without the check of the requested groups. A mutant, first.
user_add_guard_no_groups(header, req) ==
    LET a == from_request_parts(ADD_PERMISSION, header) IN
    IF a.res # "Ok" THEN a.res
    ELSE validate_username_param(req.name)

\* What add does before UserManager::add: the Auth<ADMIN> extractor,
\* validate_username_param, and users.auth on the Permission groups of the
\* request.
user_add_guard(header, req) ==
    LET a == from_request_parts(ADD_PERMISSION, header) IN
    IF a.res # "Ok" THEN a.res
    ELSE IF validate_username_param(req.name) # "Ok" THEN validate_username_param(req.name)
    ELSE IF ~Auth(TokenOf(a.token), PermissionGroups(req.groups)) THEN "PermissionDenied"
    ELSE "Ok"

\* POST /api/user/add
UserAdd(header, req) ==
    LET g == user_add_guard(header, req)
        a == from_request_parts(ADD_PERMISSION, header)
    IN
    /\ IF g = "Ok"
       THEN /\ UAdd_call(to_ascii_lowercase(req.name), req.groups)
            /\ alast' = ALast("add", ADD_PERMISSION, header, req.name, ulast'.res,
                              a.token, req)
       ELSE /\ alast' = ALast("add", ADD_PERMISSION, header, req.name, g, a.token, req)
            /\ UNCHANGED uvars
    /\ UNCHANGED <<rvars, dvars, pvars, svars, fvars, bvars>>

\* What modify does before peek_mut: the Auth<ADMIN> extractor and users.auth
\* on the Permission groups of the request.
user_modify_guard(header, req) ==
    LET a == from_request_parts(MODIFY_PERMISSION, header) IN
    IF a.res # "Ok" THEN a.res
    ELSE IF ~Auth(TokenOf(a.token), PermissionGroups(req.groups)) THEN "PermissionDenied"
    ELSE "Ok"

\* POST /api/user/modify: Ok(None) of peek_mut, the root account, is
\* ModifyRootUser.
UserModify(header, req) ==
    LET g == user_modify_guard(header, req)
        a == from_request_parts(MODIFY_PERMISSION, header)
    IN
    /\ IF g = "Ok"
       THEN /\ UPeekMut_call(req.name, req.groups)
            /\ alast' = ALast("modify", MODIFY_PERMISSION, header, req.name,
                              IF ulast'.res = "None" THEN "ModifyRootUser" ELSE ulast'.res,
                              a.token, req)
       ELSE /\ alast' = ALast("modify", MODIFY_PERMISSION, header, req.name, g, a.token, req)
            /\ UNCHANGED uvars
    /\ UNCHANGED <<rvars, dvars, pvars, svars, fvars, bvars>>

\* The accounts and tokens that exist before the first request: what
\* users.json held, or what the holder of the root token set up.
InitialUser(name, groups) == alast.op = "new" /\ UAdd(name, groups)
InitialToken(name) == alast.op = "new" /\ UAddToken(name, 1)

----------------------------------------------------------------------------
(* Specifications *)

Init ==
    /\ functions = <<>>
    /\ cells = <<>>
    /\ dirty = FALSE
    /\ dirs = {}
    /\ files = <<>>
    /\ rlast = RLast("new", NoKey, None, "Ok")
    /\ users = <<>>
    /\ tokens = <<>>
    /\ udirty = FALSE
    /\ now = 0
    /\ issued = <<>>
    /\ ulast = ULast("new", None, RootToken, {}, "Ok")
    /\ handles = <<>>
    /\ proxies = <<>>
    /\ procs = <<>>
    /\ tasks = [t \in Tasks |-> IdleTask]
    /\ started = {}
    /\ plast = PLast(Request(FALSE, TRUE, <<>>), Rejected("MissingHost"))
    /\ presp = [ws |-> "none", upstream |-> OkUpstream,
                response |-> ErrorResponse(NotSent, "MissingHost")]
    /\ ufile = NoUsersFile
    /\ save = [s \in Savers |-> SaveIdle]
    /\ phase = "running"
    /\ alast = ALast("new", 0, Header(FALSE, TRUE, NoText), None, "Ok", NoText, NoRecord)
    /\ flast = FLast("new", NoKey, None, Header(FALSE, TRUE, NoText), "Ok")
    /\ blast = BLast("new", BwrapConfig("", <<>>, <<>>, <<>>, FALSE, FALSE, FALSE), NoFd, <<>>)

NextReg ==
    \/ \E k \in Keys, t \in BOOLEAN : add_func(k, Singular("alice"), t)
    \/ \E k \in Keys, a \in AliasArgs : modify_alias(k, a)
    \/ \E k \in Keys : modify_config(k, NewConfig)
    \/ \E k \in Keys : remove_func(k)

SpecReg == Init /\ [][NextReg]_vars

\* The inputs of the user-manager calls.
AddNames == UserNames \cup {ROOT_USERNAME}
UserGroupSets == {{Permission("read")}, {Singular("alice")}}
AuthTokens == {RootToken} \cup TokenIds
AuthGroupSets == {{}, {Permission("read")}, {Singular("alice")}}

NextUser ==
    \/ \E n \in AddNames, g \in UserGroupSets : UAdd(n, g)
    \/ \E n \in UserNames : URemove(n)
    \/ \E n \in UserNames, d \in Durations : UAddToken(n, d)
    \/ \E n \in AddNames, g \in UserGroupSets : UPeekMut(n, g)
    \/ \E t \in AuthTokens, g \in AuthGroupSets : UAuth(t, g)
    \/ \E t \in AuthTokens : UUserName(t)
    \/ Tick

SpecUser == Init /\ [][NextUser]_vars

\* Deploy and kill requests running concurrently, over a registry in which
\* the functions are uploaded and reconfigured.
NextDeploy ==
    \/ \E k \in DeployKeys : add_func(k, Singular("alice"), TRUE)
    \/ \E k \in DeployKeys : modify_config(k, NewConfig)
    \/ \E t \in Tasks, k \in DeployKeys : StartFetch(t, k)
    \/ \E t \in Tasks, ok \in BOOLEAN : StartSpawn(t, ok)
    \/ \E t \in Tasks : StartInsert(t)
    \/ \E t \in Tasks : StartKillDup(t)
    \/ \E t \in Tasks : StartProxy(t)
    \/ \E t \in Tasks, k \in DeployKeys : StopRemove(t, k)
    \/ \E t \in Tasks : StopKill(t)
    \/ \E t \in Tasks : StopProxy(t)

SpecDeploy == Init /\ [][NextDeploy]_vars

\* The deploy and kill requests again, with every way start_fn can fail.
NextStart ==
    \/ \E k \in DeployKeys : add_func(k, Singular("alice"), TRUE)
    \/ \E t \in Tasks, k \in DeployKeys : StartFetch(t, k)
    \/ \E t \in Tasks, k \in DeployKeys : StartFetchInvalid(t, k)
    \/ \E t \in Tasks, ok \in BOOLEAN : StartSpawn(t, ok)
    \/ \E t \in Tasks : StartInsert(t)
    \/ \E t \in Tasks : StartKillDup(t)
    \/ \E t \in Tasks : StartProxy(t)
    \/ \E t \in Tasks, k \in DeployKeys : StopRemove(t, k)
    \/ \E t \in Tasks : StopKill(t)
    \/ \E t \in Tasks : StopProxy(t)

SpecStart == Init /\ [][NextStart]_vars

\* The functions, the requests on them and the Host headers of the proxy runs.
ProxyKeys == {Key("fn", "v1"), Key("fn", "latest")}
ProxyTasks == {1, 2}
HostPrefixes == {to_host_prefix(k) : k \in ProxyKeys} \cup {<<>>}
HostSuffixes == {host_with_dot_prefixed, host_port_with_dot_prefixed,
                 <<".", "other.test">>, <<ConfiguredHost>>,
                 <<".", ConfiguredHost, ":", "9090">>}
Hosts == {p \o x : p \in HostPrefixes, x \in HostSuffixes}
Requests == {Request(TRUE, TRUE, h) : h \in Hosts}
            \cup {Request(FALSE, TRUE, <<>>),
                  Request(TRUE, FALSE, <<"v1", ".", "fn">> \o host_with_dot_prefixed)}

\* Functions are uploaded, aliased, deployed and killed while requests come in.
NextProxy ==
    \/ \E k \in ProxyKeys : add_func(k, Singular("alice"), TRUE)
    \/ \E k \in ProxyKeys : modify_alias(k, "latest")
    \/ \E t \in ProxyTasks, k \in ProxyKeys : StartFetch(t, k)
    \/ \E t \in ProxyTasks : StartSpawn(t, TRUE)
    \/ \E t \in ProxyTasks : StartInsert(t)
    \/ \E t \in ProxyTasks : StartKillDup(t)
    \/ \E t \in ProxyTasks : StartProxy(t)
    \/ \E t \in ProxyTasks, k \in ProxyKeys : StopRemove(t, k)
    \/ \E t \in ProxyTasks : StopKill(t)
    \/ \E t \in ProxyTasks : StopProxy(t)
    \/ \E r \in Requests : Forward(r)

SpecProxy == Init /\ [][NextProxy]_vars

\* One function is deployed and killed while requests of every kind come in,
\* to upstreams that answer, refuse the upgrade or cannot be reached.
ServeHosts == {to_host_prefix(k) \o x : k \in ProxyKeys, x \in {host_with_dot_prefixed,
                                                                host_port_with_dot_prefixed}}
ServeRequests == {Request(TRUE, TRUE, h) : h \in ServeHosts}
                 \cup {Request(FALSE, TRUE, <<>>),
                       Request(TRUE, FALSE, <<"v1", ".", "fn">> \o host_with_dot_prefixed),
                       Request(TRUE, TRUE, <<ConfiguredHost>>)}
Upstreams == {OkUpstream, Upstream(TRUE, "404", "not here"), Upstream(TRUE, "101", ""),
              Upstream(FALSE, None, None)}

NextServe ==
    \/ \E k \in DeployKeys : add_func(k, Singular("alice"), TRUE)
    \/ \E k \in DeployKeys : modify_config(k, NewConfig)
    \/ \E k \in DeployKeys : StartFetch(1, k)
    \/ StartSpawn(1, TRUE)
    \/ StartInsert(1)
    \/ StartProxy(1)
    \/ \E k \in DeployKeys : StopRemove(2, k)
    \/ StopKill(2)
    \/ StopProxy(2)
    \/ \E r \in ServeRequests, ws \in WsKinds, u \in Upstreams : Serve(r, ws, u)

SpecServe == Init /\ [][NextServe]_vars

\* One function and one user are changed while the save loop runs, and the
\* server is shut down.
SaveConfigs == {NewConfig, DefaultConfig}
NextSave ==
    \/ \E k \in DeployKeys : AddFuncRunning(k)
    \/ \E k \in DeployKeys, c \in SaveConfigs : ModifyConfigRunning(k, c)
    \/ UAddRunning("alice", {})
    \/ \E s \in Savers : SaveBegin(s)
    \/ \E s \in Savers, f \in SUBSET DeployKeys : SaveWrite(s, f)
    \/ \E s \in Savers : SaveClear(s)
    \/ \E s \in Savers : SaveUBegin(s)
    \/ \E s \in Savers, o \in Orders(UserNames) \cup Orders({"alice"}) \cup {<<>>},
          ok \in BOOLEAN : SaveUWrite(s, o, ok)
    \/ \E s \in Savers : SaveUClear(s)
    \/ ShutdownSignal
    \/ Exit

SpecSave == Init /\ [][NextSave]_vars

\* The configurations the sandbox runs are given: the environment overrides
\* set, change or remove YFASS_PORT or leave it alone.
SandboxEnvs == {<<>>, "YFASS_PORT" :> "19999", "YFASS_PORT" :> "1",
                "YFASS_PORT" :> None, "RUST_LOG" :> "debug"}
SandboxConfigs == {ConfigOf(NoGroup, a, SandboxConfig(e)) : a \in Addrs, e \in SandboxEnvs}

\* A function is uploaded, configured, deployed and killed.
NextSandbox ==
    \/ \E k \in DeployKeys : add_func(k, Singular("alice"), TRUE)
    \/ \E k \in DeployKeys, c \in SandboxConfigs : modify_config(k, c)
    \/ \E t \in ProxyTasks, k \in DeployKeys : StartFetch(t, k)
    \/ \E t \in ProxyTasks, ok \in BOOLEAN : StartSpawn(t, ok)
    \/ \E t \in ProxyTasks : StartInsert(t)
    \/ \E t \in ProxyTasks : StartKillDup(t)
    \/ \E t \in ProxyTasks : StartProxy(t)
    \/ \E t \in ProxyTasks, k \in DeployKeys : StopRemove(t, k)
    \/ \E t \in ProxyTasks : StopKill(t)
    \/ \E t \in ProxyTasks : StopProxy(t)

SpecSandbox == Init /\ [][NextSandbox]_vars

\* The registry is changed, written to disk, and the server restarted on the
\* same root.
PersistKeys == {Key("fn", "v1"), Key("fn", "v2")}
PersistAliases == {"latest", None}

NextPersist ==
    \/ \E k \in PersistKeys, g \in {NoGroup, Singular("alice")} : add_func(k, g, TRUE)
    \/ \E k \in PersistKeys, al \in PersistAliases : modify_alias(k, al)
    \/ \E k \in PersistKeys : remove_func(k)
    \/ write_all_to_fs
    \/ \E o \in Orders(DOMAIN files) : Restart(o)

SpecPersist == Init /\ [][NextPersist]_vars

\* Both managers written to a disk that is damaged between the runs.
LoadUsers == {"alice", "bob"}
NextLoad ==
    \/ \E k \in PersistKeys : add_func(k, NoGroup, TRUE)
    \/ write_all_to_fs
    \/ \E k \in PersistKeys : DamageDir(k)
    \/ \E o \in Orders(DOMAIN files) : Restart(o)
    \/ \E n \in LoadUsers : UAdd(n, {Permission("read")})
    \/ \E o \in Orders(DOMAIN users) : user_write_all_to_fs(o)
    \/ \E i \in 1..MaxEntries, kind \in DamageKinds : UDamage(i, kind)
    \/ URestart

SpecLoad == Init /\ [][NextLoad]_vars

\* The inputs of the control API calls: users holding one permission, masks
\* of the endpoints, and Authorization headers of every shape.
ApiGroupSets == {{Permission("admin")}, {Permission("read")}}
Masks == {1, 17}
BearerHeaders == {Header(TRUE, TRUE, <<AUTH_PREFIX>> \o TokenText(t)) :
                     t \in {RootToken} \cup TokenIds}
NoHeader == Header(FALSE, TRUE, NoText)
Headers == BearerHeaders
           \cup {NoHeader,
                 Header(TRUE, TRUE, <<AUTH_PREFIX, Blank>> \o TokenText(1) \o <<Blank>>),
                 Header(TRUE, TRUE, <<"Basic ">> \o TokenText(1)),
                 Header(TRUE, TRUE, <<"bearer ">> \o TokenText(1)),
                 Header(TRUE, TRUE, <<AUTH_PREFIX, "bogus">>),
                 Header(TRUE, FALSE, <<AUTH_PREFIX>> \o TokenText(1)),
                 Header(TRUE, FALSE, <<"Basic ">> \o TokenText(1))}
GetNames == UserNames \cup {ROOT_USERNAME, None}

\* Users are added, modified and removed and request tokens while requests
\* reach the authenticator and the user-get endpoint.
NextApi ==
    \/ \E n \in UserNames, g \in ApiGroupSets : UAdd(n, g)
    \/ URemove("bob")
    \/ \E n \in UserNames : UAddToken(n, 1)
    \/ \E P \in Masks, h \in Headers : Authenticate(P, h)
    \/ \E h \in BearerHeaders \cup {NoHeader}, n \in GetNames : UserGet(h, n)

SpecApi == Init /\ [][NextApi]_vars

\* Permission::contains is called on every pair of permissions, in a system
\* whose users are being added.
NextPerm ==
    \/ \E n \in UserNames, g \in ApiGroupSets : UAdd(n, g)
    \/ \E p \in PermissionNames, q \in PermissionNames : PermissionContains(p, q)

SpecPerm == Init /\ [][NextPerm]_vars

\* An account is given tokens, removed and created again under the same
\* name; the clock stands still, so no token expires.
RevokeGroupSets == {{Permission("read")}, {Permission("admin")}}
NextRevoke ==
    \/ \E g \in RevokeGroupSets : UAdd("alice", g)
    \/ URemove("alice")
    \/ UAddToken("alice", 1)
    \/ \E t \in TokenIds, g \in RevokeGroupSets \cup {{}} : UAuth(t, g)

SpecRevoke == Init /\ [][NextRevoke]_vars

\* Accounts without Permission(Root) and their tokens exist; then add and
\* modify requests arrive, none of them with the root token.
InitialGroupSets == {{Permission("admin")}, {Permission("admin"), Permission("read")},
                     {Permission("read")}}
GrantHeaders == {Header(TRUE, TRUE, <<AUTH_PREFIX>> \o TokenText(t)) : t \in TokenIds}
GrantNames == {"alice", "bob", "Root", "a_b"}
GrantGroupSets == {{Permission("admin")}, {Permission("root")},
                   {Permission("read"), Singular("alice")}}
GrantRequests == {ClientUser(n, g) : n \in GrantNames, g \in GrantGroupSets}

NextGrant ==
    \/ \E g \in InitialGroupSets : InitialUser("alice", g)
    \/ \E n \in {"alice", "bob"} : InitialToken(n)
    \/ \E h \in GrantHeaders, r \in GrantRequests : UserAdd(h, r)
    \/ \E h \in GrantHeaders, r \in GrantRequests : UserModify(h, r)

SpecGrant == Init /\ [][NextGrant]_vars

\* A user holding Permission(Write) uploads a function and then manages it.
OwnKey == Key("fn", "v1")
OwnHeaders == {Header(TRUE, TRUE, <<AUTH_PREFIX>> \o TokenText(t)) : t \in {RootToken, 1}}

NextOwn ==
    \/ UAdd("alice", {Permission("write")})
    \/ UAddToken("alice", 1)
    \/ \E h \in OwnHeaders : Upload(h, CONTENT_TYPE_TAR, OwnKey, TRUE)
    \/ \E h \in OwnHeaders : OverrideConfig(h, OwnKey, Config(Singular("alice"), Addr("127.0.0.1", 19999)))
    \/ \E h \in OwnHeaders : AliasRequest(h, OwnKey, "latest")

SpecOwn == Init /\ [][NextOwn]_vars

\* The sandbox configurations bwrap_args is called with, with and without a
\* compiled seccomp filter.
RoEntrySets == {<<>>, "/lib" :> None, ("/lib" :> None) @@ ("/data" :> "/mnt")}
EnvSets == {<<>>, "MODE" :> "prod", ("MODE" :> "prod") @@ ("HOME" :> None)}
ArgLists == {<<>>, <<"--port", "80">>}
BwrapConfigs ==
    {BwrapConfig("./server", a, r, e, p, d, t) :
        a \in ArgLists, r \in RoEntrySets, e \in EnvSets,
        p \in BOOLEAN, d \in BOOLEAN, t \in BOOLEAN}
Fds == {NoFd, 5}

NextBwrap ==
    \E c \in BwrapConfigs, fd \in Fds :
        \E ro \in Orders(DOMAIN c.ro_entries), eo \in Orders(DOMAIN c.envs) :
            BwrapArgs(c, fd, ro, eo)

SpecBwrap == Init /\ [][NextBwrap]_vars

\* Upload and alias requests whose key parts and alias labels are well
\* formed, empty or out of the character set, from the holder of the root
\* token and from a client without a token.
RootHeader == Header(TRUE, TRUE, <<AUTH_PREFIX>> \o TokenText(RootToken))
KeyHeaders == {RootHeader, Header(FALSE, TRUE, NoText)}
RequestNames == {"fn", "", "Fn"}
RequestVersions == {"v1", "", "v.1"}
RequestKeys == {Key(n, v) : n \in RequestNames, v \in RequestVersions}
RequestAliases == {"latest", "v.1", None}
ContentTypes == {CONTENT_TYPE_TAR, "text/plain", None}

NextKeys ==
    \/ \E h \in KeyHeaders, ty \in ContentTypes, k \in RequestKeys : Upload(h, ty, k, TRUE)
    \/ \E h \in KeyHeaders, k \in RequestKeys, a \in RequestAliases :
          AliasRequest(h, k, a)

SpecKeys == Init /\ [][NextKeys]_vars

\* Functions are uploaded, deployed, killed and removed, the removal and the
\* upload as requests with the root token.
NextUnregister ==
    \/ \E k \in DeployKeys :
          Upload(RootHeader, CONTENT_TYPE_TAR, k, TRUE)
    \/ \E k \in DeployKeys : Remove(RootHeader, k)
    \/ \E t \in Tasks, k \in DeployKeys : Deploy(t, RootHeader, k)
    \/ \E t \in Tasks, ok \in BOOLEAN : StartSpawn(t, ok)
    \/ \E t \in Tasks : StartInsert(t)
    \/ \E t \in Tasks : StartKillDup(t)
    \/ \E t \in Tasks : StartProxy(t)
    \/ \E t \in Tasks, k \in DeployKeys : KillRequest(t, RootHeader, k)
    \/ \E t \in Tasks : StopKill(t)
    \/ \E t \in Tasks : StopProxy(t)

SpecUnregister == Init /\ [][NextUnregister]_vars

\* A function that has a second key: fn@v1 and fn@latest are uploaded, fn@v1
\* takes the label latest, and deploy and kill calls arrive on both keys.
NextInstances ==
    \/ \E k \in ProxyKeys : add_func(k, Singular("alice"), TRUE)
    \/ modify_alias(Key("fn", "v1"), "latest")
    \/ \E t \in Tasks, k \in ProxyKeys : StartFetch(t, k)
    \/ \E t \in Tasks, ok \in BOOLEAN : StartSpawn(t, ok)
    \/ \E t \in Tasks : StartInsert(t)
    \/ \E t \in Tasks : StartKillDup(t)
    \/ \E t \in Tasks : StartProxy(t)
    \/ \E t \in Tasks, k \in ProxyKeys : StopRemove(t, k)
    \/ \E t \in Tasks : StopKill(t)
    \/ \E t \in Tasks : StopProxy(t)

SpecInstances == Init /\ [][NextInstances]_vars

\* Deploy and kill calls running concurrently, any of which the caller may
\* drop where it is pending.
NextCancel ==
    \/ \E k \in DeployKeys : add_func(k, Singular("alice"), TRUE)
    \/ \E t \in Tasks, k \in DeployKeys : StartFetch(t, k)
    \/ \E t \in Tasks, ok \in BOOLEAN : StartSpawn(t, ok)
    \/ \E t \in Tasks : StartInsert(t)
    \/ \E t \in Tasks : StartKillDup(t)
    \/ \E t \in Tasks : StartCancel(t)
    \/ \E t \in Tasks : StartProxy(t)
    \/ \E t \in Tasks, k \in DeployKeys : StopRemove(t, k)
    \/ \E t \in Tasks : StopKill(t)
    \/ \E t \in Tasks : StopCancel(t)
    \/ \E t \in Tasks : StopProxy(t)

SpecCancel == Init /\ [][NextCancel]_vars

----------------------------------------------------------------------------
(* Function registry: alias bookkeeping *)

\* The registry after a step.
NextRegistry == Reg(functions', cells')

\* The key is the canonical key of the cell it resolves to.
IsCanonical(R, k) ==
    /\ k \in DOMAIN R.functions
    /\ Key(R.cells[R.functions[k]].name, R.cells[R.functions[k]].version) = k

\* C1: every function in the registry whose meta.version_alias is Some(a) has
\* an entry at (name, a), and that entry holds the cell of the function's
\* canonical entry (name, version).
C1_AliasedFunctionHasAliasEntry ==
    \A c \in DOMAIN cells :
        cells[c].version_alias # None =>
            /\ get(CurReg, Key(cells[c].name, cells[c].version_alias)) = c
            /\ get(CurReg, Key(cells[c].name, cells[c].version)) = c

\* C2: for a registered function at k and a label a with no entry at
\* (name, a), a successful modify_alias(k, Some(a)) leaves get((name, a))
\* equal to get(k), a cell whose meta.version_alias is Some(a).
C2_NewAliasResolvesToFunction ==
    [][\A k \in Keys, a \in Versions :
          ( /\ IsCanonical(CurReg, k)
            /\ Key(k.name, a) \notin DOMAIN functions
            /\ rlast' = RLast("modify_alias", k, a, "Ok") )
          => /\ get(NextRegistry, k) # NoCell
             /\ get(NextRegistry, Key(k.name, a)) = get(NextRegistry, k)
             /\ cells'[get(NextRegistry, k)].version_alias = a]_vars

\* C3: when the canonical function v1 carries alias a and modify_alias of a
\* different canonical function v2 of the same name to Some(a) succeeds, then
\* afterwards get((name, a)) is the cell of v2, v2 carries alias a and v1
\* carries no alias.
C3_AliasTransfer ==
    [][\A k1 \in Keys, k2 \in Keys, a \in Versions :
          ( /\ k1 # k2 /\ k1.name = k2.name
            /\ IsCanonical(CurReg, k1) /\ IsCanonical(CurReg, k2)
            /\ cells[functions[k1]].version_alias = a
            /\ rlast' = RLast("modify_alias", k2, a, "Ok") )
          => /\ get(NextRegistry, k2) # NoCell
             /\ get(NextRegistry, Key(k2.name, a)) = get(NextRegistry, k2)
             /\ cells'[get(NextRegistry, k2)].version_alias = a
             /\ get(NextRegistry, k1) # NoCell
             /\ cells'[get(NextRegistry, k1)].version_alias = None]_vars

\* C12: after remove(key) returns Ok for a key that resolves to a function F,
\* the registry has neither F's canonical entry (F.name, F.version) nor F's
\* alias entry (F.name, alias).
C12_RemoveDropsCanonicalAndAliasEntries ==
    [][\A k \in Keys :
          ( /\ k \in DOMAIN functions
            /\ rlast' = RLast("remove", k, None, "Ok") )
          => LET F == cells[functions[k]] IN
             /\ Key(F.name, F.version) \notin DOMAIN functions'
             /\ F.version_alias # None
                   => Key(F.name, F.version_alias) \notin DOMAIN functions']_vars

\* C13: add(key, ...) fails with Duplicated whenever the registry has an
\* entry at the key, canonical or alias, and then leaves the map, the cells,
\* the directories and the dirty flag unchanged.
C13_AddAtOccupiedKeyIsDuplicated ==
    [][\A k \in Keys :
          ( /\ k \in DOMAIN functions
            /\ rlast'.op = "add" /\ rlast'.key = k )
          => /\ rlast'.res = "Duplicated"
             /\ functions' = functions
             /\ cells' = cells
             /\ dirs' = dirs
             /\ dirty' = dirty]_vars

\* An add at a key held by an alias entry has failed with Duplicated.
C13_Witness ==
    /\ rlast.op = "add" /\ rlast.res = "Duplicated"
    /\ rlast.key \in DOMAIN functions
    /\ ~IsCanonical(CurReg, rlast.key)

----------------------------------------------------------------------------
(* User manager: authentication *)

\* The user a token was issued to is still registered.
OwnerOf(token) == users[tokens[token]]
HasOwner(token) == token \in DOMAIN tokens /\ tokens[token] \in DOMAIN users

\* C4: auth(token, G) is true exactly when the token is the root token, or
\* the token is in the token index and its owning user is a member of every
\* group of G, membership being User::is_in (name equality for Singular,
\* presence in the group set otherwise).
C4_AuthIsMembershipInEveryGroup ==
    \A t \in AuthTokens, G \in GroupSets :
        Auth(t, G) <=>
            \/ t = RootToken
            \/ HasOwner(t) /\ \A g \in G : is_in(OwnerOf(t), g)

\* C5: a token issued by add_token never authenticates once the clock has
\* reached its expiry instant, whatever groups are required.
C5_ExpiredTokenNeverAuthenticates ==
    \A t \in DOMAIN issued :
        now >= issued[t].expiry => \A G \in GroupSets : ~Auth(t, G)

\* C6: every token in the token index names, through user_name, the user it
\* belongs to, a registered user, and authenticates against the empty group
\* set.
C6_IndexedTokenHasOwner ==
    \A t \in DOMAIN tokens :
        /\ user_name(t) = issued[t].user
        /\ user_name(t) \in DOMAIN users
        /\ Auth(t, {})

\* C7: the root token authenticates against every group set and user_name
\* of it is "root", whichever users exist; also for every call made.
C7_RootTokenBypasses ==
    /\ \A G \in GroupSets : Auth(RootToken, G)
    /\ user_name(RootToken) = "root"
    /\ (ulast.op = "auth" /\ ulast.token = RootToken) => ulast.res = "true"
    /\ (ulast.op = "user_name" /\ ulast.token = RootToken) => ulast.res = "root"

\* A root-token auth call for a group no registered user holds, made while a
\* user with a token exists.
C7_Witness ==
    /\ ulast.op = "auth" /\ ulast.token = RootToken /\ ulast.res = "true"
    /\ ulast.groups = {Singular("alice")}
    /\ \E t \in DOMAIN tokens : HasOwner(t) /\ ~Auth(t, ulast.groups)


----------------------------------------------------------------------------
(* Claims about the deployment coordinator *)

\* C8: after start_fn(k) has returned Ok and until a stop_fn(k) is issued,
\* is_running(k) is true and the proxy table has an entry for
\* to_host_prefix(k).
C8_StartedIsRunningAndProxied ==
    \A k \in started : is_running(k) /\ to_host_prefix(k) \in DOMAIN proxies

\* C9: in every reachable state, a proxy entry for to_host_prefix(k) implies
\* a handle for k in the handles map.
C9_ProxyEntryHasHandle ==
    \A k \in DeployKeys : to_host_prefix(k) \in DOMAIN proxies => k \in DOMAIN handles

\* The requests made for key k.
TasksOn(k) == {t \in Tasks : tasks[t].op # "none" /\ tasks[t].key = k}

\* The processes of key k that are alive.
AliveOn(k) == {p \in DOMAIN procs : procs[p].key = k /\ procs[p].alive}

\* Two start_fn calls on the same key whose spawns both succeeded and which
\* have both returned, with no other request made for the key.
TwoStartsReturned(t1, t2) ==
    /\ t1 # t2
    /\ tasks[t1].op = "start" /\ tasks[t2].op = "start"
    /\ tasks[t1].key = tasks[t2].key
    /\ tasks[t1].pc = "done" /\ tasks[t2].pc = "done"
    /\ tasks[t1].pid # NoPid /\ tasks[t2].pid # NoPid
    /\ TasksOn(tasks[t1].key) = {t1, t2}

\* C10: of two start_fn(k) calls on a registered function whose spawns both
\* succeed, exactly one returns Ok and the other InstanceAlreadyRunning, and
\* once both have returned the only process of k alive is the one in
\* handles[k]. Stated for every pair of calls, the concurrent ones included.
C10_ConcurrentStartsOneWinner ==
    \A t1, t2 \in Tasks :
        TwoStartsReturned(t1, t2) =>
            /\ {tasks[t1].res, tasks[t2].res} = {"Ok", "InstanceAlreadyRunning"}
            /\ tasks[t1].key \in DOMAIN handles
            /\ AliveOn(tasks[t1].key) = {handles[tasks[t1].key]}

\* The two calls overlapped: the call that arrived first spawned last, and it
\* is the one that returned Ok.
C10_Witness ==
    \E t1, t2 \in Tasks :
        /\ TwoStartsReturned(t1, t2)
        /\ t1 < t2
        /\ tasks[t2].pid < tasks[t1].pid
        /\ tasks[t1].res = "Ok"
        /\ tasks[t2].res = "InstanceAlreadyRunning"
        /\ AliveOn(tasks[t1].key) = {tasks[t1].pid}

\* C11: a stop_fn(k) that finds a handle for k and is overlapped by no
\* start_fn(k) returns Ok with no entry for k in handles, the removed
\* process killed and no proxy entry for to_host_prefix(k); a stop_fn(k) that
\* finds no handle for k fails NotFound and changes neither handles nor the
\* proxy table.
C11_StopRemovesHandleProcessAndProxy ==
    [][\A t \in Tasks :
          /\ ( /\ tasks[t].pc = "unproxy" /\ tasks'[t].pc = "done"
               /\ ~tasks'[t].overlapped )
             => /\ tasks'[t].res = "Ok"
                /\ tasks[t].key \notin DOMAIN handles'
                /\ ~procs'[tasks[t].pid].alive
                /\ to_host_prefix(tasks[t].key) \notin DOMAIN proxies'
          /\ ( /\ tasks[t].pc = "idle" /\ tasks'[t].op = "stop" )
             => IF tasks'[t].key \in DOMAIN handles
                THEN tasks'[t].pc = "kill" /\ tasks'[t].pid = handles[tasks'[t].key]
                ELSE /\ tasks'[t].pc = "done" /\ tasks'[t].res = "NotFound"
                     /\ handles' = handles /\ proxies' = proxies]_vars

\* A stop_fn call no start_fn overlapped has returned Ok for a function that
\* a start_fn had deployed with success, and a later stop_fn failed NotFound.
C11_Witness ==
    \E t, u, w \in Tasks :
        /\ u < t /\ t < w
        /\ tasks[u].op = "start" /\ tasks[u].res = "Ok"
        /\ tasks[t].op = "stop" /\ tasks[t].pc = "done" /\ tasks[t].res = "Ok"
        /\ ~tasks[t].overlapped /\ tasks[t].pid = tasks[u].pid
        /\ ~procs[tasks[t].pid].alive
        /\ tasks[w].op = "stop" /\ tasks[w].res = "NotFound"
        /\ handles = <<>> /\ proxies = <<>>

\* The port of the address start_fn read for the call, as the text an
\* environment variable holds.
PortText(t) == ToString(tasks[t].auth[3])

\* C16: every sandbox process spawned by start_fn(k) has the environment
\* variable YFASS_PORT set to the port of the function's configured addr,
\* whatever config.sandbox.envs contains.
C16_SandboxReceivesPort ==
    \A t \in Tasks :
        (tasks[t].op = "start" /\ tasks[t].pid # NoPid)
        => /\ "YFASS_PORT" \in DOMAIN procs[tasks[t].pid].env
           /\ procs[tasks[t].pid].env["YFASS_PORT"] = PortText(t)

----------------------------------------------------------------------------
(* Claims about the proxy middleware *)

\* The text ends in the suffix.
EndsWith(str, suffix) == \E n \in 0..Len(str) : str = SubSeq(str, 1, n) \o suffix

\* The Host header ends in ".<configured-host>" or ".<configured-host>:<port>".
IsSubdomainHost(host) ==
    EndsWith(host, host_with_dot_prefixed) \/ EndsWith(host, host_port_with_dot_prefixed)

\* C14: a request whose Host header is present but ends in neither
\* ".<configured-host>" nor ".<configured-host>:<port>" is passed to the
\* control API router and never forwarded to a sandbox, whatever the proxy
\* table contains.
C14_ForeignHostGoesToControlApi ==
    /\ \A r \in Requests :
          (r.has_host /\ ~IsSubdomainHost(r.host))
              => forward_http_req(proxies, r) = ToControlApi
    /\ (plast.request.has_host /\ ~IsSubdomainHost(plast.request.host))
          => plast.out = ToControlApi

\* A request for "v1.fn.other.test" went to the control API while the proxy
\* table had an entry for "v1.fn".
C14_Witness ==
    /\ plast.request = Request(TRUE, TRUE, <<"v1", ".", "fn", ".", "other.test">>)
    /\ plast.out = ToControlApi
    /\ <<"v1", ".", "fn">> \in DOMAIN proxies

\* The function at canonical key k has alias a: its metadata names a, or the
\* key (name, a) resolves to its cell.
HasAlias(k, a) ==
    /\ IsCanonical(CurReg, k)
    /\ a # k.version
    /\ \/ cells[functions[k]].version_alias = a
       \/ get(CurReg, Key(k.name, a)) = functions[k]

\* A request with Host "<label>.<name>.<configured-host>".
SubdomainRequest(label, name) ==
    Request(TRUE, TRUE, to_host_prefix(Key(name, label)) \o host_with_dot_prefixed)

\* C15: while a function with alias a runs after being deployed under its
\* canonical key name@version, a request with Host
\* "<a>.<name>.<configured-host>" is routed to the function's sandbox
\* authority, as a request with Host "<version>.<name>.<configured-host>" is.
C15_AliasHostRoutesToFunction ==
    \A k \in ProxyKeys, a \in Versions :
        ( /\ HasAlias(k, a)
          /\ k \in started /\ is_running(k)
          /\ to_host_prefix(k) \in DOMAIN proxies )
        => /\ forward_http_req(proxies, SubdomainRequest(k.version, k.name)).route = "function"
           /\ forward_http_req(proxies, SubdomainRequest(a, k.name))
                 = forward_http_req(proxies, SubdomainRequest(k.version, k.name))

----------------------------------------------------------------------------
(* Claims about the control API layer *)

\* The header text starts with "Bearer ".
StartsWithBearer(header) == Len(header.text) >= 1 /\ header.text[1] = AUTH_PREFIX

\* The text after "Bearer ", trimmed.
BearerToken(header) == trim(SubSeq(header.text, 2, Len(header.text)))

\* The permission groups of the masks of the endpoints: READ, and READ | ADMIN.
PermissionsOfMask(P) ==
    IF P = 1 THEN {Permission("read")}
    ELSE IF P = 17 THEN {Permission("read"), Permission("admin")}
    ELSE {}

\* The last two steps of the decision: the scheme, then the user manager.
DecideBearer(P, header) ==
    IF ~StartsWithBearer(header) THEN Reject("InvalidAuthMethod")
    ELSE IF Auth(TokenOf(BearerToken(header)), PermissionsOfMask(P))
    THEN Accept(BearerToken(header))
    ELSE Reject("PermissionDenied")

\* A non-root user holding only Permission(Admin) is denied on a READ-masked
\* endpoint.
AdminOnlyDeniedOnRead ==
    \A t \in TokenIds :
        (HasOwner(t) /\ OwnerOf(t).groups = {Permission("admin")})
        => from_request_parts(1, Header(TRUE, TRUE, <<AUTH_PREFIX>> \o TokenText(t)))
              = Reject("PermissionDenied")

\* C17: the authenticator with mask P decides in this order: no
\* Authorization header gives Unauthorized; a value not starting with
\* "Bearer " gives InvalidAuthMethod; otherwise it yields the trimmed token
\* iff auth(token, {Permission(p) : bit p set in P}), and PermissionDenied if
\* not; permissions are matched literally.
C17_AuthenticatorDecision ==
    /\ \A P \in Masks, h \in Headers :
          from_request_parts(P, h) =
              IF ~h.present THEN Reject("Unauthorized") ELSE DecideBearer(P, h)
    /\ AdminOnlyDeniedOnRead

\* C17, amended: as above, with one more step after the header is found: a
\* value that HeaderValue::to_str refuses gives InvalidHeaderEncoding,
\* whatever it starts with. The last call made obeys the same decision.
C17_AuthenticatorDecisionWithEncoding ==
    /\ \A P \in Masks, h \in Headers :
          from_request_parts(P, h) =
              IF ~h.present THEN Reject("Unauthorized")
              ELSE IF ~h.is_str THEN Reject("InvalidHeaderEncoding")
              ELSE DecideBearer(P, h)
    /\ AdminOnlyDeniedOnRead
    /\ alast.op = "auth" =>
          /\ alast.res \in {"Ok", "Unauthorized", "InvalidHeaderEncoding",
                            "InvalidAuthMethod", "PermissionDenied"}
          /\ alast.res = "Ok" => alast.token = BearerToken(alast.header)
          /\ ~alast.header.present => alast.res = "Unauthorized"

\* A READ-masked endpoint has denied the token of a registered user who
\* holds Permission(Admin) only.
C17_Witness ==
    /\ alast.op = "auth" /\ alast.mask = 1 /\ alast.res = "PermissionDenied"
    /\ StartsWithBearer(alast.header) /\ alast.header.is_str
    /\ HasOwner(TokenOf(BearerToken(alast.header)))
    /\ OwnerOf(TokenOf(BearerToken(alast.header))).groups = {Permission("admin")}

\* The request of the holder of a token.
BearerHeader(token) == Header(TRUE, TRUE, <<AUTH_PREFIX>> \o TokenText(token))

\* C18: a non-root caller of the user-get endpoint obtains the record of
\* another user only if its group set contains Permission(Admin); a caller
\* with a valid token obtains its own record; a non-admin caller asking for
\* another user gets PermissionDenied and no record.
C18_UserGetOthersNeedsAdmin ==
    \A t \in TokenIds, n \in GetNames :
        LET r == user_get(BearerHeader(t), n) IN
        /\ r.res = "Ok" =>
              /\ HasOwner(t)
              /\ r.record # NoRecord
              /\ r.record.name # OwnerOf(t).name
                    => Permission("admin") \in OwnerOf(t).groups
        /\ HasOwner(t) =>
              /\ user_get(BearerHeader(t), None) = Found(client_from_ref(OwnerOf(t)))
              /\ user_get(BearerHeader(t), OwnerOf(t).name)
                    = Found(client_from_ref(OwnerOf(t)))
        /\ ( /\ HasOwner(t)
             /\ Permission("admin") \notin OwnerOf(t).groups
             /\ n \notin {None, OwnerOf(t).name} )
           => r = Failed("PermissionDenied")

\* A caller without Permission(Admin) has asked for another registered user
\* and was denied.
C18_Witness ==
    /\ alast.op = "get" /\ alast.res = "PermissionDenied" /\ alast.record = NoRecord
    /\ HasOwner(TokenOf(alast.token))
    /\ Permission("admin") \notin OwnerOf(TokenOf(alast.token)).groups
    /\ alast.name \in DOMAIN users
    /\ alast.name # OwnerOf(TokenOf(alast.token)).name

\* The implication lattice: the pairs (p, q) with p containing q.
Lattice ==
    {<<"root", q>> : q \in PermissionNames}
    \cup {<<"admin", q>> : q \in {"read", "write", "remove", "execute", "admin"}}
    \cup {<<"write", "read">>, <<"remove", "read">>}
    \cup {<<p, p>> : p \in PermissionNames}

\* C19: Permission::contains(p, q) equals the implication lattice on all 36
\* pairs; hence it is reflexive, and antisymmetric between distinct non-Root
\* permissions.
C19_ContainsIsTheLattice ==
    /\ Cardinality(PermissionNames \X PermissionNames) = 36
    /\ \A p \in PermissionNames, q \in PermissionNames :
          contains(p, q) <=> <<p, q>> \in Lattice
    /\ \A p \in PermissionNames : contains(p, p)
    /\ \A p \in PermissionNames \ {"root"}, q \in PermissionNames \ {"root"} :
          (contains(p, q) /\ contains(q, p)) => p = q
    /\ alast.op = "contains" =>
          (alast.res = "true" <=> <<alast.header.text[1], alast.header.text[2]>> \in Lattice)

\* contains(Admin, Execute) has been called and gave true.
C19_Witness ==
    /\ alast.op = "contains"
    /\ alast.header.text = <<"admin", "execute">>
    /\ alast.res = "true"

----------------------------------------------------------------------------
(* Persistence round trip *)

\* The alias invariant of a registry: every entry resolves to a cell whose
\* canonical entry holds the same cell, and a function's version_alias is
\* Some(a) exactly when the entry at (name, a) holds its cell.
AliasInvariant(R) ==
    /\ \A k \in DOMAIN R.functions :
          get(R, Key(R.cells[R.functions[k]].name, R.cells[R.functions[k]].version))
              = R.functions[k]
    /\ \A k \in DOMAIN R.functions, a \in Versions :
          IsCanonical(R, k) /\ a # k.version =>
              (R.cells[R.functions[k]].version_alias = a
                  <=> get(R, Key(k.name, a)) = R.functions[k])

\* Two registries with the same keys, the same sharing of cells between keys,
\* and equal meta and config behind every key.
SameRegistry(R, S) ==
    /\ DOMAIN R.functions = DOMAIN S.functions
    /\ \A k \in DOMAIN R.functions :
          R.cells[R.functions[k]] = S.cells[S.functions[k]]
    /\ \A k \in DOMAIN R.functions, l \in DOMAIN R.functions :
          (R.functions[k] = R.functions[l]) <=> (S.functions[k] = S.functions[l])

\* C20: for a registry that satisfies the alias invariant, write_all_to_fs
\* followed by read_from_fs into a fresh manager on the same root yields a
\* registry with the same keys, alias keys sharing the cell of their
\* canonical key, and every Function's meta and config equal to the original.
C20_WriteThenReadIsTheSameRegistry ==
    [][(/\ rlast.op = "write_all"
        /\ rlast'.op = "read_from_fs"
        /\ AliasInvariant(CurReg))
          => SameRegistry(NextRegistry, CurReg)]_vars

----------------------------------------------------------------------------
(* Registry: canonical owners and alias idempotence *)

\* The canonical key of the cell an entry resolves to.
CanonicalKeyOf(R, k) == Key(R.cells[R.functions[k]].name, R.cells[R.functions[k]].version)

\* C25: in every state reachable by completed add, modify_alias and remove
\* calls, each entry (n, v) -> cell has an entry at (cell.meta.name,
\* cell.meta.version) that maps to the same cell.
C25_EveryEntryHasCanonicalOwner ==
    \A k \in DOMAIN functions : get(CurReg, CanonicalKeyOf(CurReg, k)) = functions[k]

\* C26: modify_alias(k, Some(a)) called again right after a successful
\* modify_alias(k, Some(a)) on a registered key returns Ok and leaves the
\* mapping and every cell as they were.
C26_SecondModifyAliasIsNoOp ==
    [][\A k \in Keys, a \in Versions :
          (/\ rlast = RLast("modify_alias", k, a, "Ok")
           /\ rlast' = RLast("modify_alias", k, a, rlast'.res))
             => /\ rlast'.res = "Ok"
                /\ functions' = functions
                /\ cells' = cells]_vars

----------------------------------------------------------------------------
(* Proxy: forwarding and refusing *)

\* The routing prefix of a Host that ends in the configured suffix.
RoutingPrefix(host) ==
    IF EndsWith(host, host_with_dot_prefixed)
    THEN SubSeq(host, 1, Len(host) - Len(host_with_dot_prefixed))
    ELSE SubSeq(host, 1, Len(host) - Len(host_port_with_dot_prefixed))

\* The request has a readable Host that ends in the configured suffix.
IsSubdomainRequest(r) == r.has_host /\ r.is_str /\ IsSubdomainHost(r.host)

\* The response carries the status and body the upstream answered with.
UpstreamReturned(u, resp) == resp.err = None /\ resp.status = u.status /\ resp.body = u.body

\* The request is refused with FunctionNotRunning: not sent on, not routed.
RefusedNotRunning(r, resp) ==
    /\ resp = ErrorResponse(NotSent, "FunctionNotRunning")
    /\ forward_http_req(proxies, r) = Rejected("FunctionNotRunning")

C30_UnreadableHostIsMissingHost ==
    /\ \A r \in Requests :
          (~r.has_host \/ ~r.is_str) => forward_http_req(proxies, r) = Rejected("MissingHost")
    /\ (~plast.request.has_host \/ ~plast.request.is_str)
          => /\ plast.out = Rejected("MissingHost")
             /\ presp.response = ErrorResponse(NotSent, "MissingHost")

----------------------------------------------------------------------------
(* Saving: the dirty flag, the flush and the shutdown *)

\* Every function of the registry has its two files on disk with its
\* current metadata and config.
DiskCurrent ==
    \A k \in DOMAIN functions :
        k \in DOMAIN files /\ files[k] = FilesOf(cells[functions[k]])

\* users.json holds exactly the current users.
UDiskCurrent ==
    {ufile.entries[i] : i \in DOMAIN ufile.entries} = {user_to_json(users[n]) : n \in DOMAIN users}

\* No save_data call is between its first and its last step, and no write
\* has failed so far.
NoSaveInProgress == \A s \in Savers : save[s].pc \in {"idle", "done"}
NoWriteFailed == \A s \in Savers : ~save[s].anyfailed

\* C21: in every state where no registry mutation and no flush is in
\* progress, a registry holding a completed mutation that no write_all_to_fs
\* captured has its dirty flag true, whatever the interleaving of the
\* mutations with a running write_all_to_fs.
C21_UnflushedMutationIsDirty ==
    (NoSaveInProgress /\ NoWriteFailed /\ ~DiskCurrent) => dirty

\* C22: when the process exits after a graceful shutdown in which no write
\* failed, the files on disk reflect every registry and user-manager
\* mutation that completed before the signal, whatever the interleaving with
\* the periodic flushes.
C22_ShutdownLeavesDiskCurrent ==
    (phase = "exited" /\ NoWriteFailed) => (DiskCurrent /\ UDiskCurrent)

\* C23: when the registry's write_all_to_fs returns, it returns Ok and the
\* dirty flag is false, whether or not some per-function writes failed; a
\* failed write leaves the other functions written.
C23_FlushClearsDirty ==
    [][\A s \in Savers :
          /\ (save[s].pc = "clear" /\ save'[s].pc # "clear")
                => (dirty' = FALSE /\ rlast' = RLast("write_all", NoKey, None, "Ok"))
          /\ (save[s].pc = "write" /\ save'[s].pc = "clear")
                => \A k \in DOMAIN save[s].snap.functions \ save'[s].failed :
                      /\ k \in DOMAIN files'
                      /\ files'[k] = FilesOf(save[s].snap.cells[save[s].snap.functions[k]])]_vars

\* A write_all_to_fs in which the write of fn@v1 failed has returned Ok, the
\* flag is false and the function's files are not on disk.
C23_Witness ==
    /\ rlast.op = "write_all"
    /\ save["periodic"].pc = "ucheck"
    /\ save["periodic"].failed = {Key("fn", "v1")}
    /\ ~dirty
    /\ Key("fn", "v1") \in DOMAIN functions
    /\ Key("fn", "v1") \notin DOMAIN files

\* C24: write_all_to_fs writes metadata.json and config.json only into the
\* directory of each function's canonical key, one write per function, and
\* creates no directory named after an alias.
C24_WritesOnlyCanonicalDirectories ==
    [][rlast'.op = "write_all" =>
          \A k \in Keys :
              (\/ k \in dirs' \ dirs
               \/ k \in DOMAIN files' \ DOMAIN files
               \/ (k \in DOMAIN files /\ k \in DOMAIN files' /\ files'[k] # files[k]))
                  => IsCanonical(CurReg, k)]_vars

\* The errors of start_fn other than InstanceAlreadyRunning.
StartErrors == {"NotFound", "InvalidSocketAddrAsUri", "Io"}

\* Task t returns from start_fn with one of these errors in this step.
StartFails(t) ==
    /\ tasks[t].pc # "done"
    /\ tasks'[t].op = "start" /\ tasks'[t].pc = "done"
    /\ tasks'[t].res \in StartErrors

\* C28: a start_fn call that returns an error other than
\* InstanceAlreadyRunning has changed neither handles nor the proxy table and
\* has created no process: it returns either from its first part, which runs
\* from the arrival of the call without changing them, or from the spawn,
\* before which the call has changed nothing and which created no process.
C28_FailedStartChangesNothing ==
    [][\A t \in Tasks :
          /\ StartFails(t)
                => /\ tasks[t].pc \in {"idle", "spawn"}
                   /\ tasks'[t].pid = NoPid
                   /\ handles' = handles /\ proxies' = proxies /\ procs' = procs
          /\ (tasks[t].pc = "idle" /\ tasks'[t].op = "start" /\ tasks'[t].pc = "spawn")
                => /\ tasks'[t].pid = NoPid
                   /\ handles' = handles /\ proxies' = proxies /\ procs' = procs]_vars

\* A start_fn call has failed in the spawn and another in the conversion of
\* the address while the function was deployed: its handle, its process and
\* its proxy entry are there, and no other process is.
C28_Witness ==
    /\ \A e \in {"Io", "InvalidSocketAddrAsUri"} :
          \E t \in Tasks : /\ tasks[t].op = "start" /\ tasks[t].pc = "done"
                           /\ tasks[t].res = e /\ tasks[t].pid = NoPid
    /\ handles # <<>> /\ proxies # <<>>
    /\ Len(procs) = 1 /\ procs[1].alive

\* The entries of users.json that are bad: invalid JSON for a User, or the
\* name of an entry earlier in the file.
BadUserEntries(file) ==
    {i \in DOMAIN file.entries :
        \/ ~file.entries[i].valid
        \/ \E j \in 1..(i - 1) : /\ file.entries[j].valid
                                 /\ file.entries[j].name = file.entries[i].name}

\* The directories whose files do not load.
BadDirs(disk) == {k \in DOMAIN disk : ~Parses(disk[k])}

\* read_from_fs of the user manager on the file: Ok, and every entry that is
\* not bad is loaded.
UsersLoadTolerates(file, t) ==
    LET r == user_read_from_fs(<<>>, <<>>, file, t) IN
    /\ r.res = "Ok"
    /\ \A i \in DOMAIN file.entries \ BadUserEntries(file) :
          /\ file.entries[i].name \in DOMAIN r.users
          /\ r.users[file.entries[i].name] = user_from_json(file.entries[i])

\* read_from_fs of the registry on the directories, in every order read_dir
\* may yield them: Ok, and every directory that is not bad is loaded.
RegistryLoadTolerates(disk) ==
    \A o \in Orders(DOMAIN disk) :
        LET r == priv_read_from_fs(Reg(<<>>, <<>>), disk, o) IN
        /\ r.res = "Ok"
        /\ \A k \in DOMAIN disk \ BadDirs(disk) :
              LET F == function_from_files(disk[k]) IN
              /\ Key(F.name, F.version) \in DOMAIN r.functions
              /\ r.cells[r.functions[Key(F.name, F.version)]] = F

\* C27: with one bad persisted entry (unreadable, invalid JSON, or a
\* duplicate of a loaded name or key), read_from_fs of the registry and
\* read_from_fs of the user manager return Ok, skip that entry and load
\* every other persisted entry.
C27_LoadSkipsBadEntry ==
    /\ Cardinality(BadDirs(files)) = 1 => RegistryLoadTolerates(files)
    /\ (ufile.exists /\ Cardinality(BadUserEntries(ufile)) = 1)
          => UsersLoadTolerates(ufile, now)

\* The registry half of C27 alone.
C27_RegistryPart ==
    Cardinality(BadDirs(files)) = 1 => RegistryLoadTolerates(files)

\* Both parts of the key are non-empty and within [a-z0-9-].
WellFormedKey(k) == validate_key_param(k.name) /\ validate_key_param(k.version)

\* The text of to_host_prefix(k), character by character.
HostPrefixText(k) == Chars[k.version] \o <<".">> \o Chars[k.name]

\* The registry holds well-formed keys only, and to_host_prefix is injective
\* on them.
KeysWellFormed(F) ==
    /\ \A k \in DOMAIN F : WellFormedKey(k)
    /\ \A k1, k2 \in DOMAIN F : HostPrefixText(k1) = HostPrefixText(k2) => k1 = k2

\* The request that was just answered is an upload or alias request that
\* got through the extractors and carries an empty or out-of-charset part.
CarriesBadPart(f) ==
    /\ f.op \in {"upload", "alias"}
    /\ f.res \notin {"Unauthorized", "InvalidHeaderEncoding", "InvalidAuthMethod",
                      "PermissionDenied", "MissingContentType"}
    /\ \/ ~WellFormedKey(f.key)
       \/ f.alias # None /\ ~validate_key_param(f.alias)

\* C31: starting from the empty registry, after any upload and alias
\* requests every key of the registry (alias keys included) has a non-empty
\* name and version within [a-z0-9-], so to_host_prefix is injective on the
\* keys; and an upload or alias request carrying an empty or out-of-charset
\* part fails InvalidKeyFormat and leaves the registry unchanged.
C31_KeysAreWellFormed ==
    [][/\ KeysWellFormed(functions')
       /\ (flast' # flast /\ CarriesBadPart(flast'))
             => /\ flast'.res = "InvalidKeyFormat"
                /\ functions' = functions /\ cells' = cells]_vars

\* The invariant half of C31 alone.
C31_RegistryKeysWellFormed == KeysWellFormed(functions)

\* C31 with the parts an alias request is checked on being its label only.
C31_BadUploadKeyOrAliasLabelIsRefused ==
    [][( /\ flast' # flast /\ CarriesBadPart(flast')
         /\ \/ flast'.op = "upload"
            \/ flast'.alias # None /\ ~validate_key_param(flast'.alias) )
          => /\ flast'.res = "InvalidKeyFormat"
             /\ functions' = functions /\ cells' = cells]_vars

\* The part of the list that is always the same.
FixedArgs ==
    <<"--unshare-all", "--share-net", "--new-session",
      "--ro-bind", "./", "/.__private_yfass_contents",
      "--chdir", "/.__private_yfass_contents", "--die-with-parent">>

\* --proc /proc, --dev /dev, --tmpfs /tmp, each iff its mount is set.
MountArgs(c) ==
    (IF c.mount_procfs THEN <<"--proc", "/proc">> ELSE <<>>)
    \o (IF c.mount_devtmpfs THEN <<"--dev", "/dev">> ELSE <<>>)
    \o (IF c.mount_tmpfs THEN <<"--tmpfs", "/tmp">> ELSE <<>>)

\* The concatenation of a sequence of sequences.
RECURSIVE Concat(_)
Concat(ss) == IF ss = <<>> THEN <<>> ELSE Head(ss) \o Concat(Tail(ss))

\* The lists the claim allows for a configuration and a filter.
AllowedArgs(c, fd) ==
    LET ro(src) == <<"--ro-bind-try", src,
                     IF c.ro_entries[src] = None THEN src ELSE c.ro_entries[src]>>
        env(k) == IF c.envs[k] = None THEN <<"--unsetenv", k>>
                  ELSE <<"--setenv", k, c.envs[k]>>
        seccomp == IF fd = NoFd THEN <<>> ELSE <<"--seccomp", ToString(fd)>>
    IN {FixedArgs \o MountArgs(c) \o r \o e \o seccomp \o <<"--", c.command>> \o c.args :
           r \in {Concat([i \in DOMAIN o |-> ro(o[i])]) : o \in Orders(DOMAIN c.ro_entries)},
           e \in {Concat([i \in DOMAIN o |-> env(o[i])]) : o \in Orders(DOMAIN c.envs)}}

\* C32: the argument list is the fixed nine arguments, then the mounts that
\* are set in the order proc, dev, tmpfs, then one --ro-bind-try src
\* (dst or src) per read-only entry, then --setenv k v or --unsetenv k per
\* environment entry, then --seccomp fd iff a filter is supplied, then --,
\* the command and the configured arguments in their order.
C32_BwrapArgumentOrder ==
    blast.op = "bwrap_args" => blast.args \in AllowedArgs(blast.config, blast.bpf_fd)

\* A list was built for a configuration with all three mounts, two read-only
\* entries, a set and an unset variable, a filter and arguments.
C32_Witness ==
    /\ blast.op = "bwrap_args"
    /\ blast.config.mount_procfs /\ blast.config.mount_devtmpfs
    /\ blast.config.mount_tmpfs
    /\ Cardinality(DOMAIN blast.config.ro_entries) = 2
    /\ Cardinality(DOMAIN blast.config.envs) = 2
    /\ blast.bpf_fd # NoFd
    /\ blast.config.args # <<>>
    /\ Len(blast.args) = 9 + 6 + 6 + 5 + 2 + 2 + 2

\* The token a Bearer header carries.
HeaderToken(h) == TokenOf(trim(strip_prefix(h.text, AUTH_PREFIX)))

\* The request comes from a registered non-root user who holds
\* Permission(Write), on a function whose group is Singular of that user, as
\* the upload by that user stamped it.
FromUploader(f) ==
    LET t == HeaderToken(f.header) IN
    /\ t # RootToken /\ t \in DOMAIN tokens /\ tokens[t] \in DOMAIN users
    /\ Permission("write") \in users[tokens[t]].groups
    /\ f.key \in DOMAIN functions
    /\ cells[functions[f.key]].config.group = Singular(tokens[t])

\* C33: the override-config and alias requests of the non-root user who
\* uploaded the function, holding Permission(Write), are not rejected with
\* PermissionDenied.
C33_UploaderManagesOwnFunction ==
    [][(/\ flast' # flast
        /\ flast'.op \in {"override_config", "alias"}
        /\ FromUploader(flast'))
          => flast'.res # "PermissionDenied"]_vars

\* Token t was issued to an account that has been removed since: the account
\* of that name is gone, or it is a later account, which does not hold t.
\* (An account loses an unexpired token in no other way.)
IssuedToRemovedAccount(t) ==
    /\ t \in DOMAIN issued
    /\ now < issued[t].expiry
    /\ \/ issued[t].user \notin DOMAIN users
       \/ t \notin DOMAIN users[issued[t].user].tokens

\* C34: a token issued to an account that was removed fails auth for every
\* group set, also after a new user of the same name was added.
C34_RemovedAccountTokensAreDead ==
    \A t \in TokenIds :
        IssuedToRemovedAccount(t) => \A G \in GroupSets : ~Auth(t, G)

\* The half of C34 that ends at the removal: while no account of the name
\* exists, the tokens issued to it fail auth.
C34_UntilTheNameIsTakenAgain ==
    \A t \in DOMAIN issued :
        issued[t].user \notin DOMAIN users => \A G \in GroupSets : ~Auth(t, G)

\* No registered user holds Permission(Root).
NoRootHolder(U) == \A n \in DOMAIN U : Permission("root") \notin U[n].groups

\* The caller of the request the layer has just answered, when the request
\* came with the token of a registered user.
CallerKnown(a) ==
    /\ HeaderToken(a.header) # RootToken
    /\ HeaderToken(a.header) \in DOMAIN tokens
    /\ tokens[HeaderToken(a.header)] \in DOMAIN users

\* C35: an add or modify request from a non-root token succeeds only if
\* every Permission group of the requested list is in the group set of the
\* caller; and with no request from the root token and no initial holder of
\* Permission(Root), no user ever holds Permission(Root).
C35_NoEscalationThroughUserManagement ==
    [][/\ ( /\ alast' # alast
            /\ alast'.op \in {"add", "modify"}
            /\ alast'.res = "Ok"
            /\ HeaderToken(alast'.header) # RootToken )
          => /\ CallerKnown(alast')
             /\ PermissionGroups(alast'.record.groups)
                   \subseteq users[tokens[HeaderToken(alast'.header)]].groups
       /\ NoRootHolder(users) => NoRootHolder(users')]_vars

\* An administrator has added a user with a group of their own and has
\* modified a user, and has been refused Permission(Root).
C35_Witness ==
    /\ alast.op \in {"add", "modify"}
    /\ alast.res = "PermissionDenied"
    /\ Permission("root") \in alast.record.groups
    /\ CallerKnown(alast)
    /\ Permission("admin") \in users[tokens[HeaderToken(alast.header)]].groups
    /\ "bob" \in DOMAIN users
    /\ \E n \in DOMAIN users : users[n].groups = {Permission("read"), Singular("alice")}

\* The key is registered: get finds a function under it.
Registered(k) == get(CurReg, k) # NoCell

\* C36: every key in handles and every prefix in the proxy table refers to a
\* function that is currently registered. Violated: remove takes the function
\* out of the registry and leaves its handle and its route where they are.
C36_DeployedFunctionsAreRegistered ==
    /\ \A k \in DOMAIN handles : Registered(k)
    /\ \A p \in DOMAIN proxies : \E k \in Keys : to_host_prefix(k) = p /\ Registered(k)

\* C36, what the code does keep: a deploy request starts nothing for a key
\* that is not registered when it arrives.
C36_DeployNeedsRegisteredFunction ==
    [][\A t \in Tasks :
        (tasks[t].pc = "idle" /\ tasks'[t].op = "start" /\ tasks'[t].pc = "spawn")
            => Registered(tasks'[t].key)]_vars

\* The two keys reach the same function of the registry.
SameFunction(a, b) == Registered(a) /\ Registered(b) /\ get(CurReg, a) = get(CurReg, b)

\* A live instance is held under a key of the function k reaches.
InstanceRunning(k) ==
    \E h \in DOMAIN handles : procs[handles[h]].alive /\ SameFunction(h, k)

\* C37: at most one instance of a function runs, whichever of its keys is
\* used: a start_fn on a function that has a live instance does not insert
\* its handle. Violated: handles is keyed by the key of the request, so a
\* start under the other key of the function finds its slot free.
C37_SecondStartIsRefused ==
    [][\A t \in Tasks :
        (tasks[t].pc = "insert" /\ tasks'[t].pc = "proxy")
            => ~InstanceRunning(tasks[t].key)]_vars

\* C37, what the code does keep: a start_fn whose own key is held in handles
\* returns InstanceAlreadyRunning and kills the process it spawned.
C37_SecondStartOnTheSameKeyIsRefused ==
    [][\A t \in Tasks :
        (tasks[t].pc = "insert" /\ tasks[t].key \in DOMAIN handles)
            => (tasks'[t].pc = "insert" \/ tasks'[t].pc = "kill_dup")]_vars

\* C38: an add that fails because the directory cannot be created or the
\* archive cannot be unpacked leaves the registry unchanged: get(key) finds
\* nothing. Violated: priv_init_info has inserted the entry before
\* priv_write_contents runs, and nothing takes it out when the write fails.
C38_FailedAddLeavesRegistryUnchanged ==
    [][(rlast'.op = "add" /\ rlast'.res = "Io")
          => /\ get(NextRegistry, rlast'.key) = NoCell
             /\ functions' = functions]_vars

\* C38, what the code does keep: an add refused as Duplicated changes nothing.
C38_DuplicatedAddLeavesRegistryUnchanged ==
    [][(rlast'.op = "add" /\ rlast'.res = "Duplicated")
          => functions' = functions /\ cells' = cells /\ dirs' = dirs]_vars

\* No call is in progress.
Quiescent == \A t \in Tasks : tasks[t].pc \in {"idle", "done"}

\* The process is the one a handle of the table holds.
Held(p) == \E k \in DOMAIN handles : handles[k] = p

\* C39: under every interleaving of deploy and kill calls, dropped calls
\* included, every process that was spawned is, once no call is in progress,
\* held in handles or has been killed.
C39_NoLeakedSandbox ==
    Quiescent => \A p \in DOMAIN procs : procs[p].alive => Held(p)

\* A kill call and a deploy call were dropped with two processes spawned, and
\* no call is in progress.
C39_Witness ==
    /\ Quiescent
    /\ \E t \in Tasks : tasks[t].op = "stop" /\ tasks[t].res = "Cancelled"
    /\ \E t \in Tasks : tasks[t].op = "start" /\ tasks[t].res = "Cancelled"
    /\ Len(procs) >= 2
    /\ \E p \in DOMAIN procs : ~procs[p].alive

\* The authority computed by the start_fn call that inserted the handle held
\* under the key.
InsertedAuthority(k) ==
    tasks[CHOOSE t \in Tasks : tasks[t].op = "start" /\ tasks[t].pid = handles[k]].auth

\* C40: once no call is in progress, handles holds a key exactly when the
\* proxy table holds its host prefix, and the authority stored there is the
\* one computed by the start_fn call that inserted the handle. Violated: a
\* start_fn that runs between the two halves of a stop_fn finds the old route
\* in the table, which insert_sync keeps, and the stop_fn then removes it.
C40_HandlesAndRoutesAgree ==
    Quiescent =>
        \A k \in DeployKeys :
            /\ k \in DOMAIN handles <=> to_host_prefix(k) \in DOMAIN proxies
            /\ k \in DOMAIN handles /\ to_host_prefix(k) \in DOMAIN proxies
                  => proxies[to_host_prefix(k)] = InsertedAuthority(k)

\* C40, what the code does keep: when no stop_fn has overlapped a start_fn and
\* the configuration has not been changed, the two tables agree once no call
\* is in progress.
C40_AgreeWithoutOverlap ==
    (/\ Quiescent
     /\ \A t \in Tasks : ~tasks[t].overlapped) =>
        \A k \in DeployKeys :
            k \in DOMAIN handles <=> to_host_prefix(k) \in DOMAIN proxies
====
